---- MODULE Spec2Model ----
(***************************************************************************)
(* Model of the stepwise workflow engine of vessel-ai-attributes:          *)
(*   backend/app/services/agentic_workflow.py      (session, stages 1-3,   *)
(*                                                  orchestrator)          *)
(*   backend/app/services/additional_agents.py     (stages 4-6)            *)
(*   backend/app/controllers/agentic_workflow_controller.py (HTTP handlers)*)
(*                                                                         *)
(* Python values are modelled as follows.  A dict is a function whose      *)
(* domain is its set of keys (the empty dict is << >>).  A value that is   *)
(* not a dict (None, JSON null) is a record carrying a py_type tag, so     *)
(* that one field always holds values TLC can compare.  Feet are integers. *)
(* Timestamps (datetime.now()) and the fixed display-only texts of the     *)
(* payloads (suggestion lists, question lists, narratives) are left out of *)
(* the payloads; every key the code branches on is kept.                   *)
(***************************************************************************)
EXTENDS Integers, Sequences, FiniteSets, TLC

VARIABLES
    active_contexts,  \* WorkflowOrchestrator.active_contexts: session id -> WorkflowContext
    response,         \* what the last orchestrator call returned, with the call
    calls,            \* history: session id -> number of execute_next_step calls made on it
    executed,         \* history: session id -> sequence of agent names whose execute ran
    api_sessions,     \* session id -> the handler that handed it out, and its input
    api_response,     \* what the last HTTP handler returned, with the request
    pending,          \* caller -> the execute_next_step call it has suspended in
    sweep,            \* the resistance sweep of stage 3 under way: its inputs and rows
    telemetry         \* the telemetry frame of stage 4 under way, and its voyage sets

vars == <<active_contexts, response, calls, executed, api_sessions, api_response,
          pending, sweep, telemetry>>

orch_vars == <<active_contexts, response, calls, executed>>
api_vars == <<api_sessions, api_response>>
engine_vars == <<sweep, telemetry>>

(***************************************************************************)
(* Bounds of the model.                                                    *)
(***************************************************************************)
MaxSessions == 2   \* sessions one orchestrator registers
MaxAdvance == 8    \* execute_next_step calls made on registered sessions, in total
MaxApiSessions == 1   \* sessions the HTTP start handler hands out

(***************************************************************************)
(* Python helpers.                                                         *)
(***************************************************************************)
PyNone == [py_type |-> "NoneType"]

IsDict(v) == "py_type" \notin DOMAIN v

\* dict.get(k, default)
Get(d, k, default) == IF k \in DOMAIN d THEN d[k] ELSE default

\* d[k] = v
Put(d, k, v) == [x \in (DOMAIN d) \cup {k} |-> IF x = k THEN v ELSE d[x]]

\* `not v` for a dict-or-None value: None and the empty dict are falsy
Falsy(v) == (~IsDict(v)) \/ (DOMAIN v = {})

\* `not s` for a string
EmptyStr(s) == s = ""

\* no sweep and no telemetry frame is under way
NoSweep == [op |-> "none"]
NoTelemetry == [op |-> "none"]

(***************************************************************************)
(* Floats.  A Python float of the resistance engine is modelled as a       *)
(* decimal floating-point number of four significant digits: the record    *)
(* [m |-> 1000..9999, e |-> exponent] stands for m * 10^e and              *)
(* [m |-> 0, e |-> 0] for zero.  Every operation truncates its result to   *)
(* four digits, so a modelled value is within one percent of the float it  *)
(* stands for.  The engine's quantities are never negative.                *)
(* (CHOOSE r \in {f(a) : a \in {x}} : TRUE is f(x) with x evaluated once.) *)
(***************************************************************************)
Pow10(k) ==
    CASE k = 0 -> 1
      [] k = 1 -> 10
      [] k = 2 -> 100
      [] k = 3 -> 1000
      [] k = 4 -> 10000
      [] k = 5 -> 100000
      [] k = 6 -> 1000000
      [] k = 7 -> 10000000
      [] k = 8 -> 100000000
      [] k = 9 -> 1000000000

\* the number of decimal digits of a positive integer
Digits(n) ==
    CASE n < 10 -> 1
      [] n >= 10 /\ n < 100 -> 2
      [] n >= 100 /\ n < 1000 -> 3
      [] n >= 1000 /\ n < 10000 -> 4
      [] n >= 10000 /\ n < 100000 -> 5
      [] n >= 100000 /\ n < 1000000 -> 6
      [] n >= 1000000 /\ n < 10000000 -> 7
      [] n >= 10000000 /\ n < 100000000 -> 8
      [] n >= 100000000 /\ n < 1000000000 -> 9
      [] OTHER -> 10

\* the float n * 10^e for an integer n >= 0, truncated to four digits
Flt(n, e) ==
    IF n = 0 THEN [m |-> 0, e |-> 0]
    ELSE IF Digits(n) > 4
    THEN [m |-> n \div Pow10(Digits(n) - 4), e |-> e + (Digits(n) - 4)]
    ELSE [m |-> n * Pow10(4 - Digits(n)), e |-> e - (4 - Digits(n))]

\* x * y
FMul(x, y) ==
    CHOOSE r \in { Flt(a.m * b.m, a.e + b.e) : a \in {x}, b \in {y} } : TRUE

\* x / y for y # 0
FDiv(x, y) ==
    CHOOSE r \in { Flt((a.m * 10000) \div b.m, a.e - b.e - 4) : a \in {x}, b \in {y} } : TRUE

\* x < y
FLt(x, y) ==
    CHOOSE r \in {
        IF a.m = 0 THEN b.m > 0
        ELSE IF b.m = 0 THEN FALSE
        ELSE a.e < b.e \/ (a.e = b.e /\ a.m < b.m)
        : a \in {x}, b \in {y} } : TRUE

\* x <= y
FLe(x, y) == ~FLt(y, x)

\* min(x, y)
FMin(x, y) ==
    CHOOSE r \in { IF FLt(b, a) THEN b ELSE a : a \in {x}, b \in {y} } : TRUE

\* x + y
FAdd(x, y) ==
    CHOOSE r \in {
        IF a.m = 0 THEN b
        ELSE IF b.m = 0 THEN a
        ELSE LET big == IF a.e >= b.e THEN a ELSE b
                 small == IF a.e >= b.e THEN b ELSE a
             IN  IF big.e - small.e > 4 THEN big
                 ELSE Flt(big.m * Pow10(big.e - small.e) + small.m, small.e)
        : a \in {x}, b \in {y} } : TRUE

\* |x - y| for x, y # 0
FAbsDiff(x, y) ==
    CHOOSE r \in {
        LET big == IF FLt(a, b) THEN b ELSE a
            small == IF FLt(a, b) THEN a ELSE b
        IN  IF big.e - small.e > 4 THEN big
            ELSE Flt(big.m * Pow10(big.e - small.e) - small.m, small.e)
        : a \in {x}, b \in {y} } : TRUE

\* the largest r in lo .. hi - 1 with r^power <= n, given lo^power <= n < hi^power
RECURSIVE IRoot(_, _, _, _)
IRoot(n, power, lo, hi) ==
    IF hi - lo <= 1 THEN lo
    ELSE CHOOSE r \in {
             IF (IF power = 2 THEN mid * mid ELSE mid * mid * mid) <= n
             THEN IRoot(n, power, mid, hi)
             ELSE IRoot(n, power, lo, mid)
             : mid \in {(lo + hi) \div 2} } : TRUE

\* math.sqrt(x): the radicand is scaled to an even exponent
FSqrt(x) ==
    CHOOSE r \in {
        IF a.m = 0 THEN a
        ELSE CHOOSE s \in { Flt(IRoot(a.m * Pow10(k), 2, 1, 31623), (a.e - k) \div 2)
                            : k \in {4 + (a.e % 2)} } : TRUE
        : a \in {x} } : TRUE

\* x ** (1/3): the radicand is scaled to an exponent that is a multiple of 3
FCbrt(x) ==
    CHOOSE r \in {
        IF a.m = 0 THEN a
        ELSE CHOOSE s \in { Flt(IRoot(a.m * Pow10(k), 3, 1, 1000), (a.e - k) \div 3)
                            : k \in {3 + (a.e % 3)} } : TRUE
        : a \in {x} } : TRUE

\* 1000 * 10^(j/10) for j = 0 .. 10
Log10Table == <<1000, 1259, 1585, 1995, 2512, 3162, 3981, 5012, 6310, 7943, 10000>>

\* math.log10(x) for x >= 1, interpolated between the tenths of a decade
FLog10(x) ==
    CHOOSE r \in {
        Flt((a.e + 3) * 10000 + (j - 1) * 1000
                + ((a.m - Log10Table[j]) * 1000) \div (Log10Table[j + 1] - Log10Table[j]),
            -4)
        : a \in {x},
          j \in {CHOOSE i \in 1 .. 10 : Log10Table[i] <= x.m /\ x.m < Log10Table[i + 1]} } : TRUE

\* f"{x:.<digits>f}" as the integer count of 10^-digits, rounding half to even
FRound(x, digits) ==
    CHOOSE r \in {
        IF s >= 0 THEN a.m * Pow10(s)
        ELSE IF s <= -5 THEN 0
        ELSE LET q == a.m \div Pow10(-s)
                 rest == a.m % Pow10(-s)
             IN  IF 2 * rest > Pow10(-s) \/ (2 * rest = Pow10(-s) /\ q % 2 = 1)
                 THEN q + 1 ELSE q
        : a \in {x}, s \in {x.e + digits} } : TRUE

(***************************************************************************)
(* Session (WorkflowContext).                                              *)
(***************************************************************************)
DefaultTotalSteps == 6

\* Mutant: the step pointer starts at 1 (steps counted from one).
NewContext_oneBased(user_input) ==
    [ user_input     |-> user_input,
      agent_outputs  |-> << >>,
      workflow_state |-> "initialized",
      current_step   |-> 1,
      total_steps    |-> DefaultTotalSteps ]

\* WorkflowContext(user_input=...): the dataclass defaults
NewContext(user_input) ==
    [ user_input     |-> user_input,
      agent_outputs  |-> << >>,
      workflow_state |-> "initialized",
      current_step   |-> 0,
      total_steps    |-> DefaultTotalSteps ]

\* Mutant: a recorded entry replaces the whole mapping instead of one key.
update_agent_output_replacing(context, agent_name, output) ==
    [context EXCEPT !.agent_outputs =
        (agent_name :> [output |-> output, step |-> context.current_step])]

\* Mutant: the entry records the pointer after its increment.
update_agent_output_stepAfterIncrement(context, agent_name, output) ==
    [context EXCEPT !.agent_outputs =
        Put(@, agent_name, [output |-> output, step |-> context.current_step + 1])]

\* WorkflowContext.update_agent_output
update_agent_output(context, agent_name, output) ==
    [context EXCEPT !.agent_outputs =
        Put(@, agent_name, [output |-> output, step |-> context.current_step])]

get_agent_output(context, agent_name) ==
    Get(Get(context.agent_outputs, agent_name, << >>), "output", PyNone)

(***************************************************************************)
(* What a stage's _execute_internal does: it returns a payload or raises.  *)
(***************************************************************************)
Returns(payload) == [raised |-> FALSE, value |-> payload]
Raises(message) == [raised |-> TRUE, exc |-> message]

(***************************************************************************)
(* The outside world of one step: what the vision service answers          *)
(* (BoatAnalysisService.analyze_boat returns the attributes or an          *)
(* ERROR/CODE object and never raises) and whether the telemetry frame     *)
(* code (pandas/numpy) runs through or raises.                             *)
(***************************************************************************)
VisionAttributes ==
    [ HULL_TYPE |-> "RHIB", LENGTH |-> "30", BEAM |-> "10",
      AUX |-> "YES", COMMERCIAL |-> "YES" ]

VisionError == [ERROR |-> "Network error during analysis", CODE |-> "NET001"]

Environments ==
    [vision : {VisionAttributes, VisionError}, telemetry : {"ok", "raise"}]

(***************************************************************************)
(* Stage 1: BoatImageAnalyzerAgent.                                        *)
(***************************************************************************)
RECURSIVE JoinComma(_)
JoinComma(fields) ==
    IF fields = << >> THEN ""
    ELSE IF Len(fields) = 1 THEN fields[1]
    ELSE fields[1] \o ", " \o JoinComma(Tail(fields))

required_fields == <<"builder_make", "class_model">>

\* Mutant: the check stops at the first missing field.
missing_fields_firstOnly(manual_data) ==
    LET all == SelectSeq(required_fields, LAMBDA f : EmptyStr(Get(manual_data, f, "")))
    IN  IF all = << >> THEN << >> ELSE <<all[1]>>

\* [field for field in required_fields if not manual_data.get(field)]
missing_fields(manual_data) ==
    SelectSeq(required_fields, LAMBDA f : EmptyStr(Get(manual_data, f, "")))

\* Mutant: the manual data is passed on without inferred specifications.
_enrich_manual_data_asGiven(manual_data) == manual_data

_enrich_manual_data(manual_data) ==
    Put(Put(manual_data,
        "inferred_specifications",
            [ estimated_length |-> Get(manual_data, "length", 25),
              estimated_beam   |-> Get(manual_data, "beam", 8),
              likely_boat_type |-> Get(manual_data, "boat_type", "V-Bottom") ]),
        "confidence_level", "manual_input_with_inference")

_process_manual_input(manual_data) ==
    IF ~IsDict(manual_data)
    THEN Raises("'NoneType' object has no attribute 'get'")
    ELSE IF missing_fields(manual_data) # << >>
    THEN Returns([ status |-> "failed",
                   error |-> "Missing required fields: "
                                \o JoinComma(missing_fields(manual_data)),
                   required_fields |-> required_fields ])
    ELSE Returns([ status |-> "success",
                   boat_specifications |-> _enrich_manual_data(manual_data),
                   analysis_method |-> "manual_input" ])

\* confidence_score 0.85 is held in hundredths
_enhance_with_similar_boats(analysis_result) ==
    Put(analysis_result, "confidence_score", 85)

_analyze_image(input_data, env) ==
    LET result == env.vision IN
    IF "ERROR" \in DOMAIN result
    THEN Returns([ status |-> "failed",
                   error |-> result["ERROR"],
                   code |-> Get(result, "CODE", "UNKNOWN") ])
    ELSE Returns([ status |-> "success",
                   boat_specifications |-> _enhance_with_similar_boats(result),
                   analysis_method |-> "image_analysis" ])

BoatImageAnalyzer_internal(context, env) ==
    LET input_data == context.user_input IN
    IF "image_data" \in DOMAIN input_data
    THEN _analyze_image(input_data, env)
    ELSE IF "manual_data" \in DOMAIN input_data
    THEN _process_manual_input(input_data["manual_data"])
    ELSE Returns([ status |-> "failed",
                   error |-> "No image or manual data provided",
                   suggestions |->
                     "Please provide either an image or manual boat specifications" ])

(***************************************************************************)
(* The upstream test of stages 2 and 3:                                    *)
(*   if not output or output.get('status') != 'success': <fail>            *)
(***************************************************************************)
\* Mutant: the upstream result is only tested for presence.
ValidUpstream_presenceOnly(output) == ~Falsy(output)

ValidUpstream(output) ==
    (~Falsy(output)) /\ Get(output, "status", "") = "success"

(***************************************************************************)
(* Stage 2: BoatProfileBuilderAgent.                                       *)
(***************************************************************************)
\* float(s.replace(' ft', '')) on the feet strings the model's inputs carry
FloatOfFeet(s) ==
    CASE s = "30 ft" -> 30
      [] s = "30"    -> 30
      [] s = "10 ft" -> 10
      [] s = "10"    -> 10
      [] s = "0"     -> 0

\* Mutant: an absent dimension is read from stage 1's placeholder estimate.
Feet_fromEstimate(boat_specs, labelled, plain) ==
    IF labelled \in DOMAIN boat_specs
    THEN FloatOfFeet(boat_specs[labelled])
    ELSE Get(boat_specs, plain,
             Get(Get(boat_specs, "inferred_specifications", << >>),
                 "estimated_" \o plain, 0))

\* float(boat_specs.get(labelled, '0').replace(' ft', ''))
\*     if labelled in boat_specs else boat_specs.get(plain, 0)
Feet(boat_specs, labelled, plain) ==
    IF labelled \in DOMAIN boat_specs
    THEN FloatOfFeet(boat_specs[labelled])
    ELSE Get(boat_specs, plain, 0)

_simulate_usage_responses ==
    [ primary_use |-> "Commercial Fishing", operating_hours |-> 8,
      operating_season |-> 8, typical_load |-> 75,
      operating_conditions |-> "Moderate seas" ]

_build_normalized_profile(boat_specs, usage_responses) ==
    [ vessel_identity |->
        [ builder_make |-> Get(boat_specs, "builder_make", "Unknown"),
          class_model  |-> Get(boat_specs, "class_model", "Unknown"),
          name         |-> Get(boat_specs, "name", ""),
          mmsi         |-> Get(boat_specs, "mmsi", "") ],
      physical_specifications |->
        [ length_ft |-> Feet(boat_specs, "Length", "length"),
          beam_ft   |-> Feet(boat_specs, "Beam", "beam"),
          width_ft  |-> Feet(boat_specs, "Width", "width"),
          boat_type |-> Get(boat_specs, "Boat Type",
                            Get(boat_specs, "boat_type", "Unknown")) ],
      operational_profile |->
        [ primary_use             |-> usage_responses.primary_use,
          commercial_operation    |-> Get(boat_specs, "Commercial", "NO") = "YES",
          auxiliary_systems       |-> Get(boat_specs, "Aux", "NO") = "YES",
          daily_operating_hours   |-> usage_responses.operating_hours,
          seasonal_months         |-> usage_responses.operating_season,
          typical_load_percentage |-> usage_responses.typical_load,
          operating_conditions    |-> usage_responses.operating_conditions ] ]

BoatProfileBuilder_internal(context) ==
    LET analyzer_output == get_agent_output(context, "BoatImageAnalyzer") IN
    IF ~ValidUpstream(analyzer_output)
    THEN Returns([ status |-> "failed",
                   error |-> "No valid boat specifications from previous step" ])
    ELSE LET boat_specs == Get(analyzer_output, "boat_specifications", << >>) IN
         Returns([ status |-> "success",
                   usage_responses |-> _simulate_usage_responses,
                   normalized_profile |->
                     _build_normalized_profile(boat_specs, _simulate_usage_responses) ])

(***************************************************************************)
(* Stage 3: PerformanceCurveGeneratorAgent.  The curve values are not      *)
(* modelled here: the payload keeps which curves exist.  What decides the  *)
(* outcome is _estimate_wetted_surface, which divides by                   *)
(* 1025 * length_m * beam_m * 0.35.                                        *)
(***************************************************************************)
_generate_display_curves ==
    [ speed_vs_fuel_rate    |-> [curve_type |-> "speed_vs_fuel_rate"],
      speed_vs_shaft_power  |-> [curve_type |-> "speed_vs_shaft_power"],
      speed_vs_thrust       |-> [curve_type |-> "speed_vs_thrust"],
      acceleration_vs_power |-> [curve_type |-> "acceleration_vs_power"] ]

PerformanceCurveGenerator_internal(context) ==
    LET profile_output == get_agent_output(context, "BoatProfileBuilder") IN
    IF ~ValidUpstream(profile_output)
    THEN Returns([ status |-> "failed",
                   error |-> "No valid boat profile from previous step" ])
    ELSE LET normalized_profile == Get(profile_output, "normalized_profile", << >>)
             physical_specs == Get(normalized_profile, "physical_specifications", << >>)
             length_ft == Get(physical_specs, "length_ft", 30)
             beam_ft == Get(physical_specs, "beam_ft", 10)
         IN  IF length_ft * beam_ft = 0
             THEN Raises("float division by zero")
             ELSE Returns([ status |-> "success",
                            performance_curves |-> _generate_display_curves,
                            csv_data |-> "speed_mps,thrust_N,shaft_power_W,battery_demand_W",
                            download_available |-> TRUE ])

(***************************************************************************)
(* Stage 3: the resistance sweep (_generate_csv_performance_data) and the  *)
(* estimates it starts from.  Lengths are floats in metres, the            *)
(* displacement is in kilograms, speeds are in metres per second.          *)
(***************************************************************************)
\* boat_type.upper() of the hull types of the model
Upper(boat_type) ==
    CASE boat_type = "RHIB" -> "RHIB"
      [] boat_type = "rhib" -> "RHIB"
      [] boat_type = "V-Bottom" -> "V-BOTTOM"
      [] boat_type = "Unknown" -> "UNKNOWN"

_estimate_displacement(length_m, beam_m, boat_type) ==
    LET volume_coefficient ==
            IF Upper(boat_type) = "RHIB" THEN Flt(35, -2) ELSE Flt(45, -2)
        draft_m == FMul(length_m, Flt(8, -2))
        rho_water == Flt(1025, 0)
    IN  FMul(FMul(FMul(FMul(length_m, beam_m), draft_m), volume_coefficient), rho_water)

_estimate_wetted_surface(length_m, beam_m, displacement) ==
    LET draft_est ==
            FCbrt(FDiv(displacement,
                       FMul(FMul(FMul(Flt(1025, 0), length_m), beam_m), Flt(35, -2))))
    IN  FMul(FMul(length_m, FAdd(FMul(Flt(2, 0), draft_est), beam_m)), Flt(85, -2))

\* Mutant: the sweep runs up to the theoretical hull speed.
_estimate_service_speed_atHullSpeed(length_m) ==
    LET hull_speed_ms == FMul(Flt(134, -2), FSqrt(length_m))
    IN  FMin(hull_speed_ms, Flt(15, 0))

_estimate_service_speed(length_m) ==
    LET hull_speed_ms == FMul(Flt(134, -2), FSqrt(length_m))
        service_speed_ms == FMul(hull_speed_ms, Flt(5, -1))
    IN  FMin(service_speed_ms, Flt(15, 0))

\* Mutant: the residual coefficient changes branch at a Froude number of 0.2.
Cr_coeff_branchAtLowFroude(Froude_number) ==
    IF FLt(Froude_number, Flt(2, -1))
    THEN FMul(Flt(1, -3), FMul(FMul(FMul(Froude_number, Flt(10, 0)),
                                    FMul(Froude_number, Flt(10, 0))),
                               FMul(Froude_number, Flt(10, 0))))
    ELSE FMul(Flt(1, -3), FMul(FMul(Froude_number, Flt(10, 0)),
                               FMul(Froude_number, Flt(10, 0))))

\* 0.001 * (Fn*10)**3 if Fn < 0.4 else 0.001 * (Fn*10)**2
Cr_coeff(Froude_number) ==
    IF FLt(Froude_number, Flt(4, -1))
    THEN FMul(Flt(1, -3), FMul(FMul(FMul(Froude_number, Flt(10, 0)),
                                    FMul(Froude_number, Flt(10, 0))),
                               FMul(Froude_number, Flt(10, 0))))
    ELSE FMul(Flt(1, -3), FMul(FMul(Froude_number, Flt(10, 0)),
                               FMul(Froude_number, Flt(10, 0))))

\* Froude_number = speed / math.sqrt(g * length_m)
Fn(speed, length_m) == FDiv(speed, FSqrt(FMul(Flt(981, -2), length_m)))

\* the else branch of the loop body: the resistance formulas at one speed.
\* math.log10 raises on 0 and the division raises when log10(Re) is 2.
resistance_at(speed, length_m, wetted_surface) ==
    LET rho_water == Flt(1025, 0)
        g == Flt(981, -2)
        nu == Flt(119, -8)
        Re == FDiv(FMul(speed, length_m), nu)
    IN  IF Re.m = 0 THEN Raises("math domain error")
        ELSE IF FLog10(Re) = Flt(2, 0) THEN Raises("float division by zero")
        ELSE
        LET Cf == FDiv(Flt(75, -3),
                       FMul(FAbsDiff(FLog10(Re), Flt(2, 0)), FAbsDiff(FLog10(Re), Flt(2, 0))))
            k1 == Flt(15, -2)
            Rf == FMul(FMul(FMul(FMul(FMul(Flt(5, -1), rho_water), FMul(speed, speed)),
                                 wetted_surface), Cf),
                       FAdd(Flt(1, 0), k1))
            Froude_number == Fn(speed, length_m)
            Rr == FMul(FMul(FMul(FMul(Flt(5, -1), rho_water), FMul(speed, speed)),
                            wetted_surface),
                       Cr_coeff(Froude_number))
            Rt == FAdd(Rf, Rr)
            Pe == FMul(Rt, speed)
            shaft_power_W == FDiv(Pe, Flt(65, -2))
        IN  Returns([ Re               |-> Re,
                      thrust_N         |-> FDiv(Rt, Flt(85, -2)),
                      shaft_power_W    |-> shaft_power_W,
                      battery_demand_W |-> FDiv(shaft_power_W, Flt(90, -2)) ])

\* Mutant: the loop body has no branch for speed 0.
sweep_row_formulaAtEverySpeed(speed, length_m, wetted_surface) ==
    resistance_at(speed, length_m, wetted_surface)

\* the loop body: the quantities of the row at one speed.  Re is kept to
\* tell the speeds at which the friction formula was evaluated.
sweep_row(speed, length_m, wetted_surface) ==
    IF speed.m = 0
    THEN Returns([ Re |-> PyNone,
                   thrust_N |-> Flt(0, 0), shaft_power_W |-> Flt(0, 0),
                   battery_demand_W |-> Flt(0, 0) ])
    ELSE resistance_at(speed, length_m, wetted_surface)

\* f"{speed:.2f},{thrust_N:.1f},{shaft_power_W:.0f},{battery_demand_W:.0f}":
\* hundredths of m/s, tenths of a newton, watts
csv_line(speed, row) ==
    [ speed_mps        |-> FRound(speed, 2),
      thrust_N         |-> FRound(row.thrust_N, 1),
      shaft_power_W    |-> FRound(row.shaft_power_W, 0),
      battery_demand_W |-> FRound(row.battery_demand_W, 0) ]

\* Mutant: the loop stops before the service speed is reached.
sweep_continues_belowServiceSpeed(speed, service_speed_ms) ==
    FLt(speed, service_speed_ms)

\* while speed <= service_speed_ms
sweep_continues(speed, service_speed_ms) == FLe(speed, service_speed_ms)

(***************************************************************************)
(* Stage 4: TelemetryDataProcessorAgent.  It reads nothing of the session. *)
(***************************************************************************)
\* The sample frame is hourly from 2023-06-01 to 2023-10-31 (152 days and
\* the closing midnight); it is held here with ScaledDays days of four
\* samples each, two docked at night and two under way, and the closing
\* night.  Speeds and fuel flows are in tenths; the random speed and fuel
\* flow of the operating hours are held at their means (12 knots, 15 gph).
ScaledDays == 6

is_operating(i) == ((i - 1) % 4) \in {2, 3}

_load_sample_telemetry_data ==
    [ i \in 1..(4 * ScaledDays + 2) |->
        [ timestamp        |-> i,
          speed_over_water |-> IF is_operating(i) THEN 120 ELSE 0,
          fuel_flow        |-> IF is_operating(i) THEN 150 ELSE 5 ] ]

\* telemetry["speed_over_water"] < 0.5, speeds in tenths of a knot
is_docked(row) == row.speed_over_water < 5

\* is_docked != is_docked.shift(1): the first row compares with NaN
voyage_change(frame, i) ==
    i = 1 \/ is_docked(frame[i]) # is_docked(frame[i - 1])

\* telemetry["voyage_change"].cumsum(): the voyage_id column of the first
\* i rows
RECURSIVE voyage_id(_, _)
voyage_id(frame, i) ==
    IF i = 0 THEN << >>
    ELSE CHOOSE column \in {
             Append(above, (IF above = << >> THEN 0 ELSE above[i - 1])
                              + (IF voyage_change(frame, i) THEN 1 ELSE 0))
             : above \in {voyage_id(frame, i - 1)} } : TRUE

\* Mutant: only empty segments are skipped.
too_short_emptyOnly(voyage_segment) == Len(voyage_segment) < 1

\* if len(voyage_segment) < 2: continue
too_short(voyage_segment) == Len(voyage_segment) < 2

\* the rows of a frame carry their position as timestamp
_separate_voyage_sets(frame) ==
    CHOOSE voyage_sets \in {
        LET last_id == IF frame = << >> THEN 0 ELSE ids[Len(frame)]
            segments == [ v \in 1..last_id |->
                            SelectSeq(frame, LAMBDA row : ids[row.timestamp] = v) ]
        IN  [ away_from_dock |->
                SelectSeq(segments, LAMBDA voyage_segment :
                            ~too_short(voyage_segment) /\ ~is_docked(voyage_segment[1])),
              at_dock |->
                SelectSeq(segments, LAMBDA voyage_segment :
                            ~too_short(voyage_segment) /\ is_docked(voyage_segment[1])) ]
        : ids \in {voyage_id(frame, Len(frame))} } : TRUE

RECURSIVE column_sum(_, _)
column_sum(voyage, column) ==
    IF voyage = << >> THEN 0
    ELSE Head(voyage)[column] + column_sum(Tail(voyage), column)

\* for i, voyage in enumerate(voyage_list[:5]); the means are kept to the
\* tenth below; of the fields of a serialized voyage, those stage 5 reads
\* for its figures are kept
_serialize_voyage_data(voyage_list) ==
    [ i \in 1..(IF Len(voyage_list) < 5 THEN Len(voyage_list) ELSE 5) |->
        [ duration_hours |-> Len(voyage_list[i]),
          avg_speed      |-> column_sum(voyage_list[i], "speed_over_water")
                                \div Len(voyage_list[i]),
          avg_fuel_flow  |-> column_sum(voyage_list[i], "fuel_flow")
                                \div Len(voyage_list[i]) ] ]

\* the success payload of stage 4: the stage loads the sample frame itself
\* and reads nothing of the session
telemetry_payload ==
    CHOOSE payload \in {
        [ status |-> "success",
          telemetry_summary |->
            [ total_data_points |-> Len(enriched_telemetry),
              voyage_count  |-> Len(voyage_sets.away_from_dock),
              dwell_periods |-> Len(voyage_sets.at_dock) ],
          voyage_sets |->
            [ away_from_dock |-> _serialize_voyage_data(voyage_sets.away_from_dock),
              at_dock        |-> _serialize_voyage_data(voyage_sets.at_dock) ],
          water_current_integration |-> "completed" ]
        : enriched_telemetry \in {_load_sample_telemetry_data},
          voyage_sets \in {_separate_voyage_sets(_load_sample_telemetry_data)} } : TRUE

\* Mutant: stage 4 requires the curves of stage 3, as stage 5 does.
TelemetryDataProcessor_internal_needingCurves(context, env) ==
    IF ~ValidUpstream(get_agent_output(context, "PerformanceCurveGenerator"))
    THEN Returns([ status |-> "failed",
                   error |-> "No valid performance curves from previous step" ])
    ELSE IF env.telemetry = "raise"
    THEN Raises("telemetry frame error")
    ELSE Returns(telemetry_payload)

\* TelemetryDataProcessorAgent._execute_internal: the context is not read
TelemetryDataProcessor_internal(context, env) ==
    IF env.telemetry = "raise"
    THEN Raises("telemetry frame error")
    ELSE Returns(telemetry_payload)

(***************************************************************************)
(* Stage 5: VoyageAnalyticsEngine.                                         *)
(***************************************************************************)
_calculate_voyage_analytics(profile_data, curves_data, telemetry_data) ==
    LET curves == Get(curves_data, "performance_curves", << >>)
        fuel_curve == Get(curves, "speed_vs_fuel_rate", << >>)
        power_curve == Get(curves, "speed_vs_shaft_power", << >>)
    IN  IF Falsy(fuel_curve) \/ Falsy(power_curve)
        THEN [error |-> "Performance curves not available"]
        ELSE LET voyage_sets ==
                     Get(Get(telemetry_data, "voyage_sets", << >>), "away_from_dock", << >>)
                 \* one result for each voyage of the list (none is empty)
                 voyage_results == [ i \in DOMAIN voyage_sets |-> [voyage_id |-> i] ]
             IN  [ total_voyages |-> Len(voyage_results) ]

\* min(fuel_consumed_during_dwell * 1.1, estimated_tank_capacity), in
\* hundredths of a gallon from tenths of a gallon and whole gallons
refuel_amount(fuel_consumed_during_dwell, estimated_tank_capacity) ==
    IF fuel_consumed_during_dwell * 11 <= estimated_tank_capacity * 100
    THEN fuel_consumed_during_dwell * 11
    ELSE estimated_tank_capacity * 100

_calculate_dwell_analytics(profile_data, telemetry_data) ==
    LET dwell_sets == Get(Get(telemetry_data, "voyage_sets", << >>), "at_dock", << >>)
        profile == Get(profile_data, "normalized_profile", << >>)
        physical_specs == Get(profile, "physical_specifications", << >>)
        LENGTH == Get(physical_specs, "LENGTH_ft", 25)
        estimated_tank_capacity == LENGTH * 2
        dwell_results ==
            [ i \in DOMAIN dwell_sets |->
                [ estimated_refuel_amount_gallons |->
                      refuel_amount(dwell_sets[i].avg_fuel_flow
                                        * dwell_sets[i].duration_hours,
                                    estimated_tank_capacity) ] ]
    IN  [ total_dwell_periods |-> Len(dwell_results),
          estimated_tank_capacity_gallons |-> estimated_tank_capacity,
          dwell_details |-> dwell_results ]

VoyageAnalyticsEngine_internal(context) ==
    LET profile_data == get_agent_output(context, "BoatProfileBuilder")
        curves_data == get_agent_output(context, "PerformanceCurveGenerator")
        telemetry_data == get_agent_output(context, "TelemetryDataProcessor")
    IN  \* if not all([profile_data, curves_data, telemetry_data])
        IF Falsy(profile_data) \/ Falsy(curves_data) \/ Falsy(telemetry_data)
        THEN Returns([ status |-> "failed",
                       error |-> "Missing required data from previous agents" ])
        ELSE Returns([ status |-> "success",
                       voyage_analytics |->
                         _calculate_voyage_analytics(profile_data, curves_data, telemetry_data),
                       dwell_analytics |->
                         _calculate_dwell_analytics(profile_data, telemetry_data) ])

(***************************************************************************)
(* Stage 6: ReportChartGeneratorAgent.                                     *)
(***************************************************************************)
PriorAgents ==
    { "BoatImageAnalyzer", "BoatProfileBuilder", "PerformanceCurveGenerator",
      "TelemetryDataProcessor", "VoyageAnalyticsEngine" }

\* the fixed recommendations and the two added on findings of the profile
_generate_recommendations(all_outputs) ==
    LET boat_profile ==
            Get(Get(all_outputs, "BoatProfileBuilder", << >>), "normalized_profile", << >>)
        operational == Get(boat_profile, "operational_profile", << >>)
    IN  << "Validate AI-generated performance curves through sea trials or naval architect review",
           "Implement continuous monitoring system for real-time performance optimization",
           "Conduct detailed analysis of high fuel consumption voyages to identify efficiency improvements",
           "Consider operational pattern modifications to reduce environmental impact" >>
        \o (IF Get(operational, "AUXiliary_systems", FALSE)
            THEN << "Evaluate AUXiliary system electrification for dwell periods to reduce emissions" >>
            ELSE << >>)
        \o (IF Get(operational, "COMMERCIAL_operation", FALSE)
            THEN << "Explore COMMERCIAL incentives for fuel efficiency improvements and emission reductions" >>
            ELSE << >>)

_generate_comprehensive_report(all_outputs) ==
        [ recommendations |-> _generate_recommendations(all_outputs) ]

ReportChartGenerator_internal(context) ==
    LET all_outputs ==
            [ a \in {a \in PriorAgents : ~Falsy(get_agent_output(context, a))} |->
                get_agent_output(context, a) ]
    IN  IF Cardinality(DOMAIN all_outputs) < 4
        THEN Returns([ status |-> "failed",
                       error |->
                         "Insufficient data from previous agents for report generation" ])
        ELSE Returns([ status |-> "success",
                       comprehensive_report |-> _generate_comprehensive_report(all_outputs),
                       deliverables |-> [ baseline_profile_complete |-> TRUE,
                                          json_compatible |-> TRUE ] ])

(***************************************************************************)
(* BaseAgent: the wrapper around a stage's computation.                    *)
(***************************************************************************)
\* Mutant: a seventh agent is registered while total_steps stays 6.
agents_withExtra ==
    << "BoatImageAnalyzer", "BoatProfileBuilder", "PerformanceCurveGenerator",
       "TelemetryDataProcessor", "VoyageAnalyticsEngine", "ReportChartGenerator",
       "ExtraAgent" >>

\* WorkflowOrchestrator._initialize_agents: the agents, by position
agents ==
    << "BoatImageAnalyzer", "BoatProfileBuilder", "PerformanceCurveGenerator",
       "TelemetryDataProcessor", "VoyageAnalyticsEngine", "ReportChartGenerator" >>

\* agent._execute_internal(context), by the agent's class
_execute_internal(name, context, env) ==
    CASE name = "BoatImageAnalyzer"         -> BoatImageAnalyzer_internal(context, env)
      [] name = "BoatProfileBuilder"        -> BoatProfileBuilder_internal(context)
      [] name = "PerformanceCurveGenerator" -> PerformanceCurveGenerator_internal(context)
      [] name = "TelemetryDataProcessor"    -> TelemetryDataProcessor_internal(context, env)
      [] name = "VoyageAnalyticsEngine"     -> VoyageAnalyticsEngine_internal(context)
      [] name = "ReportChartGenerator"      -> ReportChartGenerator_internal(context)
      [] OTHER -> Raises("Subclasses must implement _execute_internal")

\* Mutant: the except branch returns the error payload without recording it.
execute_unrecordedError(name, context, env) ==
    LET outcome == _execute_internal(name, context, env) IN
    IF ~outcome.raised
    THEN [ context |-> update_agent_output(context, name, outcome.value),
           result  |-> outcome.value ]
    ELSE [ context |-> context,
           result  |-> [error |-> outcome.exc, status |-> "failed", agent |-> name] ]

\* Mutant: recording a result re-stamps every recorded entry with the
\* current step.
execute_restampingAll(name, context, env) ==
    LET outcome == _execute_internal(name, context, env)
        result == IF ~outcome.raised THEN outcome.value
                  ELSE [error |-> outcome.exc, status |-> "failed", agent |-> name]
        recorded == update_agent_output(context, name, result)
    IN  [ context |-> [recorded EXCEPT !.agent_outputs =
                         [n \in DOMAIN @ |-> [@[n] EXCEPT !.step = context.current_step]]],
          result  |-> result ]

\* BaseAgent.execute: the context after the call, and the value returned
execute(name, context, env) ==
    LET outcome == _execute_internal(name, context, env) IN
    IF ~outcome.raised
    THEN [ context |-> update_agent_output(context, name, outcome.value),
           result  |-> outcome.value ]
    ELSE LET error_result ==
                 [error |-> outcome.exc, status |-> "failed", agent |-> name]
         IN  [ context |-> update_agent_output(context, name, error_result),
               result  |-> error_result ]

(***************************************************************************)
(* WorkflowOrchestrator.  Its operations are functions of the registry     *)
(* (active_contexts) of the orchestrator object they are called on; each   *)
(* gives the registry after the call, the value returned and `ran`, the    *)
(* names of the agents whose execute was called.                           *)
(***************************************************************************)
\* WorkflowOrchestrator.__init__: self.active_contexts = {}
NewOrchestrator == << >>

\* Mutant: starting a session drops the sessions registered before.
start_workflow_replacing(registry, session_id, user_input) ==
    (session_id :> NewContext(user_input))

\* WorkflowOrchestrator.start_workflow
start_workflow(registry, session_id, user_input) ==
    Put(registry, session_id, NewContext(user_input))

\* Mutant: the terminal test is never true.
WorkflowDone_never(context) == FALSE

\* Mutant: the terminal test is already true at the last stage's index.
WorkflowDone_atLastStage(context) == context.current_step >= Len(agents) - 1

\* if context.current_step >= len(self.agents)
WorkflowDone(context) == context.current_step >= Len(agents)

\* Mutant: the pointer only advances past a stage that succeeded.
AdvancePointer_onSuccess(context, result) ==
    IF Get(result, "status", "") = "success"
    THEN [context EXCEPT !.current_step = @ + 1]
    ELSE context

\* Mutant: the first increment marks the session as running.
AdvancePointer_markingRunning(context, result) ==
    [context EXCEPT !.current_step = @ + 1, !.workflow_state = "running"]

\* context.current_step += 1, after agent.execute returned `result`
AdvancePointer(context, result) == [context EXCEPT !.current_step = @ + 1]

\* Mutant: an id that is not registered is registered by the lookup.
execute_next_step_registering(registry, session_id, env) ==
    IF session_id \notin DOMAIN registry
    THEN [ registry |-> Put(registry, session_id, NewContext(<< >>)),
           ran |-> << >>,
           value |-> [error |-> "Invalid session ID"] ]
    ELSE LET context == registry[session_id] IN
         IF WorkflowDone(context)
         THEN [ registry |-> registry, ran |-> << >>,
                value |-> [ status  |-> "completed",
                            message |-> "Workflow completed successfully",
                            results |-> context.agent_outputs ] ]
         ELSE IF context.current_step + 1 \notin DOMAIN agents
         THEN \* self.agents[context.current_step] raises IndexError
              [ registry |-> registry, ran |-> << >>,
                value |-> [exception |-> "IndexError"] ]
         ELSE LET agent == agents[context.current_step + 1]
                  done == execute(agent, context, env)
                  after == AdvancePointer(done.context, done.result)
              IN  [ registry |-> [registry EXCEPT ![session_id] = after],
                    ran |-> <<agent>>,
                    value |-> [ status       |-> "in_progress",
                                current_step |-> after.current_step,
                                total_steps  |-> after.total_steps,
                                agent_name   |-> agent,
                                agent_result |-> done.result,
                                session_id   |-> session_id ] ]

execute_next_step(registry, session_id, env) ==
    IF session_id \notin DOMAIN registry
    THEN [ registry |-> registry, ran |-> << >>,
           value |-> [error |-> "Invalid session ID"] ]
    ELSE LET context == registry[session_id] IN
         IF WorkflowDone(context)
         THEN [ registry |-> registry, ran |-> << >>,
                value |-> [ status  |-> "completed",
                            message |-> "Workflow completed successfully",
                            results |-> context.agent_outputs ] ]
         ELSE IF context.current_step + 1 \notin DOMAIN agents
         THEN \* self.agents[context.current_step] raises IndexError
              [ registry |-> registry, ran |-> << >>,
                value |-> [exception |-> "IndexError"] ]
         ELSE LET agent == agents[context.current_step + 1]
                  done == execute(agent, context, env)
                  after == AdvancePointer(done.context, done.result)
              IN  [ registry |-> [registry EXCEPT ![session_id] = after],
                    ran |-> <<agent>>,
                    value |-> [ status       |-> "in_progress",
                                current_step |-> after.current_step,
                                total_steps  |-> after.total_steps,
                                agent_name   |-> agent,
                                agent_result |-> done.result,
                                session_id   |-> session_id ] ]

get_workflow_status(registry, session_id) ==
    IF session_id \notin DOMAIN registry
    THEN [error |-> "Invalid session ID"]
    ELSE LET context == registry[session_id] IN
         [ session_id     |-> session_id,
           current_step   |-> context.current_step,
           total_steps    |-> context.total_steps,
           workflow_state |-> context.workflow_state,
           agent_outputs  |-> context.agent_outputs ]

(***************************************************************************)
(* One long-lived orchestrator, called directly and sequentially.          *)
(***************************************************************************)
SessionIds == 1 .. (MaxSessions + 1)

\* manual input that names the boat and gives no dimensions
ManualWithoutDimensions ==
    [manual_data |-> [builder_make |-> "Acme", class_model |-> "X1"]]

\* the user_input dicts a workflow is started with
UserInputs ==
    { [manual_data |-> [ builder_make |-> "Acme", class_model |-> "X1",
                         length |-> 30, beam |-> 10 ]],
      ManualWithoutDimensions,
      [manual_data |-> << >>],
      [manual_data |-> PyNone],
      [image_data |-> "base64", brand |-> "", model |-> ""],
      [brand |-> "Acme"] }

\* the inputs the sessions of the long-lived orchestrator are started with,
\* one per path through stage 1: manual input without dimensions takes the
\* path of manual input with them
SessionInputs == UserInputs \ {ManualWithoutDimensions}

\* uuid4(): an id no session of the registry has
FreshId(registry) == Cardinality(DOMAIN registry) + 1

TotalCalls == LET RECURSIVE Sum(_)
                  Sum(S) == IF S = {} THEN 0
                            ELSE LET x == CHOOSE y \in S : TRUE
                                 IN  calls[x] + Sum(S \ {x})
              IN  Sum(DOMAIN calls)

Start(user_input) ==
    /\ Cardinality(DOMAIN active_contexts) < MaxSessions
    /\ LET session_id == FreshId(active_contexts) IN
        /\ active_contexts' = start_workflow(active_contexts, session_id, user_input)
        /\ response' = [op |-> "start", session_id |-> session_id,
                        value |-> [session_id |-> session_id]]
        /\ calls' = Put(calls, session_id, 0)
        /\ executed' = Put(executed, session_id, << >>)
    /\ UNCHANGED <<api_vars, pending, engine_vars>>

Advance(session_id, env) ==
    /\ TotalCalls < MaxAdvance
    /\ LET r == execute_next_step(active_contexts, session_id, env) IN
        /\ active_contexts' = r.registry
        /\ response' = [op |-> "advance", session_id |-> session_id, value |-> r.value]
        /\ calls' = IF session_id \in DOMAIN calls
                    THEN [calls EXCEPT ![session_id] = @ + 1] ELSE calls
        /\ executed' = IF session_id \in DOMAIN executed
                       THEN [executed EXCEPT ![session_id] = @ \o r.ran] ELSE executed
    /\ UNCHANGED <<api_vars, pending, engine_vars>>

\* Mutant: reading the status marks the session as polled.
Status_marking(session_id) ==
    /\ response' = [op |-> "status", session_id |-> session_id,
                    value |-> get_workflow_status(active_contexts, session_id)]
    /\ active_contexts' =
          IF session_id \in DOMAIN active_contexts
          THEN [active_contexts EXCEPT ![session_id].workflow_state = "polled"]
          ELSE active_contexts
    /\ UNCHANGED <<calls, executed>>
    /\ UNCHANGED <<api_vars, pending, engine_vars>>

Status(session_id) ==
    /\ response' = [op |-> "status", session_id |-> session_id,
                    value |-> get_workflow_status(active_contexts, session_id)]
    /\ UNCHANGED <<active_contexts, calls, executed>>
    /\ UNCHANGED <<api_vars, pending, engine_vars>>

Init ==
    /\ active_contexts = NewOrchestrator
    /\ response = [op |-> "none"]
    /\ calls = << >>
    /\ executed = << >>
    /\ api_sessions = << >>
    /\ api_response = [op |-> "none"]
    /\ pending = << >>
    /\ sweep = NoSweep
    /\ telemetry = NoTelemetry

Next ==
    \/ \E user_input \in SessionInputs : Start(user_input)
    \/ \E session_id \in SessionIds, env \in Environments : Advance(session_id, env)
    \/ \E session_id \in SessionIds : Status(session_id)

Spec == Init /\ [][Next]_vars

(***************************************************************************)
(* One long-lived orchestrator whose sessions are started with manual      *)
(* input or with an image and advanced, with starts and advances in any    *)
(* order.                                                                  *)
(***************************************************************************)
RegistryInputs ==
    { ManualWithoutDimensions,
      [image_data |-> "base64", brand |-> "", model |-> ""] }

RegistryNext ==
    \/ \E user_input \in RegistryInputs : Start(user_input)
    \/ \E session_id \in SessionIds, env \in Environments : Advance(session_id, env)

RegistrySpec == Init /\ [][RegistryNext]_vars

(***************************************************************************)
(* One session of one orchestrator, started with any of the inputs and     *)
(* advanced and read sequentially.                                         *)
(***************************************************************************)
SessionInit ==
    /\ \E user_input \in UserInputs :
           active_contexts = start_workflow(NewOrchestrator, 1, user_input)
    /\ response = [op |-> "start", session_id |-> 1, value |-> [session_id |-> 1]]
    /\ calls = (1 :> 0)
    /\ executed = (1 :> << >>)
    /\ api_sessions = << >>
    /\ api_response = [op |-> "none"]
    /\ pending = << >>
    /\ sweep = NoSweep
    /\ telemetry = NoTelemetry

SessionNext ==
    \/ \E env \in Environments : Advance(1, env)
    \/ Status(1)

SessionSpec == SessionInit /\ [][SessionNext]_vars

(***************************************************************************)
(* One session started with manual data that states the auxiliary and the  *)
(* commercial attribute under the keys stage 2 reads ('Aux', 'Commercial'),*)
(* or with an image, and advanced to the report of stage 6.                *)
(***************************************************************************)
ReportInputs ==
    { [manual_data |-> [ builder_make |-> "Acme", class_model |-> "X1",
                         Aux |-> aux, Commercial |-> commercial ]] :
        aux \in {"YES", "NO"}, commercial \in {"YES", "NO"} }
    \cup { [image_data |-> "base64", brand |-> "", model |-> ""] }

ReportInit ==
    /\ \E user_input \in ReportInputs :
           active_contexts = start_workflow(NewOrchestrator, 1, user_input)
    /\ response = [op |-> "start", session_id |-> 1, value |-> [session_id |-> 1]]
    /\ calls = (1 :> 0)
    /\ executed = (1 :> << >>)
    /\ api_sessions = << >>
    /\ api_response = [op |-> "none"]
    /\ pending = << >>
    /\ sweep = NoSweep
    /\ telemetry = NoTelemetry

ReportSpec == ReportInit /\ [][SessionNext]_vars

(***************************************************************************)
(* Overlapping execute_next_step calls on one session.  A call is split    *)
(* where execute_next_step awaits agent.execute (line 787): before it the  *)
(* session is looked up, the terminal test made and the agent chosen from  *)
(* current_step; after it the result is recorded and current_step          *)
(* incremented.  Stage 3 awaits an HTTP request there; callers on          *)
(* different threads (the controller runs every request on an event loop   *)
(* of its own) can be preempted there at any stage.  Nothing guards the    *)
(* session.                                                                *)
(***************************************************************************)
MaxCallers == 2
MaxOverlappingCalls == 7

Callers == 1 .. MaxCallers

\* execute_next_step up to the await: either it returns at once, or it is
\* suspended holding the index it read
begin_step(registry, session_id) ==
    IF session_id \notin DOMAIN registry
    THEN [suspended |-> FALSE, value |-> [error |-> "Invalid session ID"]]
    ELSE LET context == registry[session_id] IN
         IF WorkflowDone(context)
         THEN [ suspended |-> FALSE,
                value |-> [ status  |-> "completed",
                            message |-> "Workflow completed successfully",
                            results |-> context.agent_outputs ] ]
         ELSE [suspended |-> TRUE, index |-> context.current_step]

\* Mutant: the pointer is set from the index the call read before the await.
finish_step_fromReadIndex(registry, session_id, index, env) ==
    LET agent == agents[index + 1]
        done == execute(agent, registry[session_id], env)
        after == [done.context EXCEPT !.current_step = index + 1]
    IN  [ registry |-> [registry EXCEPT ![session_id] = after],
          ran |-> <<agent>>,
          value |-> [ status       |-> "in_progress",
                      current_step |-> after.current_step,
                      total_steps  |-> after.total_steps,
                      agent_name   |-> agent,
                      agent_result |-> done.result,
                      session_id   |-> session_id ] ]

\* execute_next_step from the await on, for the agent at the index read
\* before it: execute records the result, then context.current_step += 1
finish_step(registry, session_id, index, env) ==
    LET agent == agents[index + 1]
        done == execute(agent, registry[session_id], env)
        after == AdvancePointer(done.context, done.result)
    IN  [ registry |-> [registry EXCEPT ![session_id] = after],
          ran |-> <<agent>>,
          value |-> [ status       |-> "in_progress",
                      current_step |-> after.current_step,
                      total_steps  |-> after.total_steps,
                      agent_name   |-> agent,
                      agent_result |-> done.result,
                      session_id   |-> session_id ] ]

BeginAdvance(caller) ==
    /\ caller \notin DOMAIN pending
    /\ calls[1] < MaxOverlappingCalls
    /\ LET b == begin_step(active_contexts, 1) IN
        IF b.suspended
        THEN /\ pending' = Put(pending, caller, [session_id |-> 1, index |-> b.index])
             /\ UNCHANGED response
        ELSE /\ response' = [op |-> "advance", session_id |-> 1, value |-> b.value]
             /\ UNCHANGED pending
    /\ calls' = [calls EXCEPT ![1] = @ + 1]
    /\ UNCHANGED <<active_contexts, executed, api_vars, engine_vars>>

ResumeAdvance(caller, env) ==
    /\ caller \in DOMAIN pending
    /\ LET f == finish_step(active_contexts, pending[caller].session_id,
                            pending[caller].index, env) IN
        /\ active_contexts' = f.registry
        /\ response' = [op |-> "advance", session_id |-> pending[caller].session_id,
                        value |-> f.value]
        /\ executed' = [executed EXCEPT ![pending[caller].session_id] = @ \o f.ran]
    /\ pending' = [c \in DOMAIN pending \ {caller} |-> pending[c]]
    /\ UNCHANGED <<calls, api_vars, engine_vars>>

ConcurrentNext ==
    \/ \E caller \in Callers : BeginAdvance(caller)
    \/ \E caller \in Callers, env \in Environments : ResumeAdvance(caller, env)

ConcurrentSpec == SessionInit /\ [][ConcurrentNext]_vars

(***************************************************************************)
(* execute_next_step calls on different sessions of one orchestrator,      *)
(* split at the await as above.  Every caller advances a session of its    *)
(* own, so calls on different sessions overlap freely and the calls on one *)
(* session follow one another.  The agent objects the sessions share hold  *)
(* a name, a description and a logger and no session state.                *)
(***************************************************************************)
MaxInterleavedCalls == 8

\* one input whose stages succeed, one whose stages 1 to 3 fail
InterleavedInputs ==
    { [manual_data |-> [ builder_make |-> "Acme", class_model |-> "X1",
                         length |-> 30, beam |-> 10 ]],
      [manual_data |-> << >>] }

\* start_workflow called once per caller, before any step
RECURSIVE StartedSessions(_, _)
StartedSessions(ids, input_of) ==
    IF ids = {} THEN NewOrchestrator
    ELSE LET session_id == CHOOSE i \in ids : \A j \in ids : i >= j
         IN  start_workflow(StartedSessions(ids \ {session_id}, input_of),
                            session_id, input_of[session_id])

InterleavedInit ==
    /\ \E input_of \in [Callers -> InterleavedInputs] :
           active_contexts = StartedSessions(Callers, input_of)
    /\ response = [op |-> "none"]
    /\ calls = [s \in Callers |-> 0]
    /\ executed = [s \in Callers |-> << >>]
    /\ api_sessions = << >>
    /\ api_response = [op |-> "none"]
    /\ pending = << >>
    /\ sweep = NoSweep
    /\ telemetry = NoTelemetry

\* Mutant: the step pointer is one counter shared by every session.
finish_own_step_sharedPointer(registry, session_id, index, env) ==
    LET f == finish_step(registry, session_id, index, env) IN
    [ f EXCEPT !.registry =
        [s \in DOMAIN @ |-> IF s = session_id THEN @[s]
                            ELSE [@[s] EXCEPT !.current_step = @ + 1]] ]

\* execute_next_step from the await on, in a call on the caller's own session
finish_own_step(registry, session_id, index, env) ==
    finish_step(registry, session_id, index, env)

BeginOwnAdvance(caller) ==
    /\ caller \notin DOMAIN pending
    /\ TotalCalls < MaxInterleavedCalls
    /\ LET b == begin_step(active_contexts, caller) IN
        IF b.suspended
        THEN /\ pending' = Put(pending, caller, [session_id |-> caller, index |-> b.index])
             /\ UNCHANGED response
        ELSE /\ response' = [op |-> "advance", session_id |-> caller, value |-> b.value]
             /\ UNCHANGED pending
    /\ calls' = [calls EXCEPT ![caller] = @ + 1]
    /\ UNCHANGED <<active_contexts, executed, api_vars, engine_vars>>

ResumeOwnAdvance(caller, env) ==
    /\ caller \in DOMAIN pending
    /\ LET f == finish_own_step(active_contexts, pending[caller].session_id,
                                pending[caller].index, env) IN
        /\ active_contexts' = f.registry
        /\ response' = [op |-> "advance", session_id |-> pending[caller].session_id,
                        value |-> f.value]
        /\ executed' = [executed EXCEPT ![pending[caller].session_id] = @ \o f.ran]
    /\ pending' = [c \in DOMAIN pending \ {caller} |-> pending[c]]
    /\ UNCHANGED <<calls, api_vars, engine_vars>>

InterleavedNext ==
    \/ \E caller \in Callers : BeginOwnAdvance(caller)
    \/ \E caller \in Callers, env \in Environments : ResumeOwnAdvance(caller, env)

InterleavedSpec == InterleavedInit /\ [][InterleavedNext]_vars

(***************************************************************************)
(* The stage objects called directly, in any order, on one context         *)
(* (BaseAgent.execute is public and takes any WorkflowContext).  This is   *)
(* where a stage meets a missing upstream result.                          *)
(***************************************************************************)
MaxStageRuns == 5

AgentNames == {agents[i] : i \in DOMAIN agents}

StageInit ==
    /\ \E user_input \in UserInputs :
           active_contexts = start_workflow(NewOrchestrator, 1, user_input)
    /\ response = [op |-> "none"]
    /\ calls = (1 :> 0)
    /\ executed = (1 :> << >>)
    /\ api_sessions = << >>
    /\ api_response = [op |-> "none"]
    /\ pending = << >>
    /\ sweep = NoSweep
    /\ telemetry = NoTelemetry

RunStage(name, env) ==
    /\ calls[1] < MaxStageRuns
    /\ LET done == execute(name, active_contexts[1], env) IN
        /\ active_contexts' = [active_contexts EXCEPT ![1] = done.context]
        /\ response' = [op |-> "execute", session_id |-> 1, agent |-> name,
                        value |-> done.result]
    /\ calls' = [calls EXCEPT ![1] = @ + 1]
    /\ UNCHANGED executed
    /\ UNCHANGED <<api_vars, pending, engine_vars>>

StageNext == \E name \in AgentNames, env \in Environments : RunStage(name, env)

StageSpec == StageInit /\ [][StageNext]_vars

(***************************************************************************)
(* The resistance sweep of stage 3, one loop iteration at a time, for      *)
(* physical specifications of any size.  _execute_internal converts the    *)
(* feet of the profile to metres and estimates the displacement;           *)
(* _generate_csv_performance_data estimates wetted surface and service     *)
(* speed and then loops.  csv_lines holds the data rows (the header line   *)
(* is left out) and rows the quantities they were formatted from.          *)
(***************************************************************************)
SweepLengths == {1, 5, 25, 30, 100, 2000}
SweepBeams == {8, 10}
SweepBoatTypes == {"RHIB", "rhib", "V-Bottom"}

begin_sweep(length_ft, beam_ft, boat_type) ==
    LET length_m == FMul(Flt(length_ft, 0), Flt(3048, -4))
        beam_m == FMul(Flt(beam_ft, 0), Flt(3048, -4))
        displacement == _estimate_displacement(length_m, beam_m, boat_type)
    IN  [ op |-> "sweep",
          length_ft |-> length_ft, beam_ft |-> beam_ft, boat_type |-> boat_type,
          length_m |-> length_m, beam_m |-> beam_m, displacement |-> displacement,
          wetted_surface |-> _estimate_wetted_surface(length_m, beam_m, displacement),
          service_speed_ms |-> _estimate_service_speed(length_m),
          speed |-> Flt(0, 0),
          csv_lines |-> << >>,
          rows |-> << >>,
          raised |-> FALSE,
          returned |-> FALSE ]

SweepInit ==
    /\ active_contexts = NewOrchestrator
    /\ response = [op |-> "none"]
    /\ calls = << >>
    /\ executed = << >>
    /\ api_sessions = << >>
    /\ api_response = [op |-> "none"]
    /\ pending = << >>
    /\ \E length_ft \in SweepLengths, beam_ft \in SweepBeams, boat_type \in SweepBoatTypes :
           sweep = begin_sweep(length_ft, beam_ft, boat_type)
    /\ telemetry = NoTelemetry

\* one iteration of the while loop
SweepRow ==
    /\ ~sweep.returned /\ ~sweep.raised
    /\ sweep_continues(sweep.speed, sweep.service_speed_ms)
    /\ sweep' = CHOOSE next \in {
           IF row.raised
           THEN [sweep EXCEPT !.raised = TRUE]
           ELSE [sweep EXCEPT !.csv_lines = Append(@, csv_line(sweep.speed, row.value)),
                              !.rows = Append(@, row.value),
                              !.speed = FAdd(@, Flt(25, -2))]
           : row \in {sweep_row(sweep.speed, sweep.length_m, sweep.wetted_surface)} } : TRUE
    /\ UNCHANGED <<orch_vars, api_vars, pending, telemetry>>

\* the loop ends and the lines are returned
SweepReturn ==
    /\ ~sweep.returned /\ ~sweep.raised
    /\ ~sweep_continues(sweep.speed, sweep.service_speed_ms)
    /\ sweep' = [sweep EXCEPT !.returned = TRUE]
    /\ UNCHANGED <<orch_vars, api_vars, pending, telemetry>>

SweepNext == SweepRow \/ SweepReturn

SweepSpec == SweepInit /\ [][SweepNext]_vars

(***************************************************************************)
(* The segmentation of stage 4 on a telemetry frame of any content: the    *)
(* frame is loaded a sample at a time and then separated into voyage sets. *)
(* Readings are [speed_over_water, fuel_flow] in tenths: docked at night,  *)
(* operating below, at and above the docked threshold of 0.5 knots.        *)
(***************************************************************************)
MaxSamples == 6

SampleReadings ==
    { [speed_over_water |-> 0,   fuel_flow |-> 5],
      [speed_over_water |-> 4,   fuel_flow |-> 150],
      [speed_over_water |-> 5,   fuel_flow |-> 150],
      [speed_over_water |-> 120, fuel_flow |-> 150] }

TelemetryInit ==
    /\ active_contexts = NewOrchestrator
    /\ response = [op |-> "none"]
    /\ calls = << >>
    /\ executed = << >>
    /\ api_sessions = << >>
    /\ api_response = [op |-> "none"]
    /\ pending = << >>
    /\ sweep = NoSweep
    /\ telemetry = [ op |-> "frame", frame |-> << >>, separated |-> FALSE,
                     voyage_sets |-> [away_from_dock |-> << >>, at_dock |-> << >>] ]

\* the next hourly sample of the frame
LoadSample(reading) ==
    /\ ~telemetry.separated
    /\ Len(telemetry.frame) < MaxSamples
    /\ telemetry' =
          [telemetry EXCEPT !.frame =
              Append(@, [ timestamp        |-> Len(telemetry.frame) + 1,
                          speed_over_water |-> reading.speed_over_water,
                          fuel_flow        |-> reading.fuel_flow ])]
    /\ UNCHANGED <<orch_vars, api_vars, pending, sweep>>

\* voyage_sets = await self._separate_voyage_sets(enriched_telemetry)
SeparateVoyageSets ==
    /\ ~telemetry.separated
    /\ telemetry.frame # << >>
    /\ telemetry' = [telemetry EXCEPT !.separated = TRUE,
                                      !.voyage_sets = _separate_voyage_sets(telemetry.frame)]
    /\ UNCHANGED <<orch_vars, api_vars, pending, sweep>>

TelemetryNext ==
    \/ \E reading \in SampleReadings : LoadSample(reading)
    \/ SeparateVoyageSets

TelemetrySpec == TelemetryInit /\ [][TelemetryNext]_vars

(***************************************************************************)
(* The HTTP handlers (AgenticWorkflowController).  Every handler builds    *)
(* its own WorkflowOrchestrator, whose registry starts empty and is        *)
(* dropped when the handler returns.                                       *)
(***************************************************************************)
max_steps == 6

\* manual bodies with one required field absent or empty
PartialManualBodies ==
    { [manual_data |-> [builder_make |-> "Acme"]],
      [manual_data |-> [class_model |-> "X1"]],
      [manual_data |-> [builder_make |-> "", class_model |-> "X1"]],
      [manual_data |-> [builder_make |-> "Acme", class_model |-> ""]] }

\* the JSON bodies posted to /workflow/start and /workflow/execute
RequestBodies == UserInputs \cup { << >> } \cup PartialManualBodies

\* uuid4(): an id no handler has handed out
ApiFreshId == Cardinality(DOMAIN api_sessions) + 1

ApiSessionIds == 1 .. (MaxApiSessions + 1)

Http(http_status, body) == [http_status |-> http_status, body |-> body]

\* orchestrator = WorkflowOrchestrator(...) at the head of a handler
HandlerOrchestrator == NewOrchestrator

\* AgenticWorkflowController.start_workflow: the reply, and whether a
\* session was started and with which input
start_workflow_handler(data, session_id) ==
    IF data = << >>
    THEN [ started |-> FALSE,
           reply |-> Http(400, [error |-> "No data provided", code |-> "REQ001"]) ]
    ELSE IF "image_data" \in DOMAIN data
    THEN [ started |-> TRUE,
           input |-> [ image_data |-> data["image_data"],
                       brand |-> Get(data, "brand", ""),
                       model |-> Get(data, "model", "") ],
           reply |-> Http(200, [ status |-> "success", session_id |-> session_id,
                                 next_action |-> "execute_step", total_steps |-> 6 ]) ]
    ELSE IF "manual_data" \in DOMAIN data
    THEN LET manual_data == data["manual_data"] IN
         IF ~IsDict(manual_data)
         THEN [ started |-> FALSE,
                reply |-> Http(500, [ error |-> "Failed to start workflow",
                                      code |-> "SYS001" ]) ]
         ELSE IF missing_fields(manual_data) # << >>
         THEN [ started |-> FALSE,
                reply |-> Http(400, [ error |-> "Missing required fields: "
                                         \o JoinComma(missing_fields(manual_data)),
                                      code |-> "VAL001",
                                      required_fields |-> required_fields ]) ]
         ELSE [ started |-> TRUE,
                input |-> [manual_data |-> manual_data],
                reply |-> Http(200, [ status |-> "success", session_id |-> session_id,
                                      next_action |-> "execute_step",
                                      total_steps |-> 6 ]) ]
    ELSE [ started |-> FALSE,
           reply |-> Http(400, [ error |-> "Either image_data or manual_data must be provided",
                                 code |-> "REQ002" ]) ]

\* AgenticWorkflowController.execute_workflow_step
execute_workflow_step_handler(session_id, env) ==
    LET result == execute_next_step(HandlerOrchestrator, session_id, env).value IN
    IF "exception" \in DOMAIN result
    THEN Http(500, [error |-> "Failed to execute workflow step", code |-> "SYS002"])
    ELSE IF "error" \in DOMAIN result
    THEN Http(400, result)
    ELSE Http(200, result)

\* AgenticWorkflowController.get_workflow_status
get_workflow_status_handler(session_id) ==
    LET status == get_workflow_status(HandlerOrchestrator, session_id) IN
    IF "error" \in DOMAIN status THEN Http(404, status) ELSE Http(200, status)

\* the while loop of execute_full_workflow; `ran` lists what each
\* execute_next_step call of the loop executed and returned.
\* (CHOOSE y \in {e(x) : x \in {v}} : TRUE is e(v) with v evaluated once.)
RECURSIVE run_steps(_, _, _, _, _, _)
run_steps(registry, session_id, env, step_count, results, ran) ==
    IF step_count >= max_steps
    THEN [ failed |-> FALSE, registry |-> registry, results |-> results, ran |-> ran ]
    ELSE CHOOSE y \in {
         LET step_result == r.value
             ran2 == IF r.ran = << >> THEN ran
                     ELSE Append(ran, [ agent |-> r.ran[1],
                                        result |-> step_result.agent_result ])
         IN  IF "exception" \in DOMAIN step_result
             THEN [ failed |-> TRUE, raised |-> TRUE, registry |-> r.registry,
                    results |-> results, ran |-> ran2 ]
             ELSE IF "error" \in DOMAIN step_result
             THEN [ failed |-> TRUE, raised |-> FALSE, registry |-> r.registry,
                    step |-> step_count + 1, step_result |-> step_result,
                    results |-> results, ran |-> ran2 ]
             ELSE CHOOSE z \in {
                  IF Get(step_result, "status", "None") = "completed"
                  THEN [ failed |-> FALSE, registry |-> r.registry,
                         results |-> results2, ran |-> ran2 ]
                  ELSE run_steps(r.registry, session_id, env,
                                 step_count + 1, results2, ran2)
                  : results2 \in {
                      Append(results,
                             [ step       |-> step_count + 1,
                               agent_name |-> Get(step_result, "agent_name", "None"),
                               result     |-> Get(step_result, "agent_result", PyNone),
                               status     |-> Get(step_result, "status", "None") ]) }
                  } : TRUE
         : r \in {execute_next_step(registry, session_id, env)} } : TRUE

\* AgenticWorkflowController.execute_full_workflow: the reply, whether a
\* session was started, and `ran` as in run_steps
execute_full_workflow_handler(data, session_id, env) ==
    IF data = << >>
    THEN [ started |-> FALSE, ran |-> << >>,
           reply |-> Http(400, [error |-> "No data provided", code |-> "REQ005"]) ]
    ELSE IF ~("image_data" \in DOMAIN data \/ "manual_data" \in DOMAIN data)
    THEN [ started |-> FALSE, ran |-> << >>,
           reply |-> Http(400, [ error |-> "Either image_data or manual_data must be provided",
                                 code |-> "REQ006" ]) ]
    ELSE LET workflow_input ==
                 IF "image_data" \in DOMAIN data
                 THEN [ image_data |-> data["image_data"],
                        brand |-> Get(data, "brand", ""),
                        model |-> Get(data, "model", "") ]
                 ELSE [manual_data |-> data["manual_data"]]
             registry == start_workflow(HandlerOrchestrator, session_id, workflow_input)
         IN  CHOOSE y \in {
             IF run.failed /\ run.raised
             THEN [ started |-> TRUE, input |-> workflow_input, ran |-> run.ran,
                    reply |-> Http(500, [ error |-> "Failed to execute full workflow",
                                          code |-> "SYS004" ]) ]
             ELSE IF run.failed
             THEN [ started |-> TRUE, input |-> workflow_input, ran |-> run.ran,
                    reply |-> Http(500,
                        [ error |-> "Workflow failed at step " \o ToString(run.step),
                          step_result |-> run.step_result,
                          completed_steps |-> run.results ]) ]
             ELSE [ started |-> TRUE, input |-> workflow_input, ran |-> run.ran,
                    reply |-> Http(200,
                        [ status |-> "success",
                          session_id |-> session_id,
                          step_results |-> run.results,
                          final_status |-> get_workflow_status(run.registry, session_id),
                          total_steps_completed |-> Len(run.results) ]) ]
             : run \in {run_steps(registry, session_id, env, 0, << >>, << >>)} } : TRUE

\* request.args.get("session_id") when the query has no session_id
NoSessionId == 0

\* AgenticWorkflowController.download_performance_csv; the `format` query
\* parameter is read and not used
download_performance_csv_handler(session_id) ==
    IF session_id = NoSessionId
    THEN Http(400, [error |-> "Session ID is required", code |-> "REQ001"])
    ELSE LET workflow_status == get_workflow_status(HandlerOrchestrator, session_id) IN
         IF Falsy(workflow_status) \/ Get(workflow_status, "status", "None") = "not_found"
         THEN Http(404, [error |-> "Workflow session not found", code |-> "SESS001"])
         ELSE LET agent_results == Get(workflow_status, "agent_results", << >>)
                  perf_agent_result == Get(agent_results, "PerformanceCurveGenerator", << >>)
              IN  IF Falsy(perf_agent_result)
                     \/ Get(perf_agent_result, "status", "None") # "success"
                  THEN Http(400, [ error |-> "Performance curves not available. Run workflow first.",
                                   code |-> "WORK001" ])
                  ELSE IF EmptyStr(Get(perf_agent_result, "csv_data", ""))
                  THEN Http(404, [error |-> "CSV data not available", code |-> "DATA001"])
                  ELSE Http(200, [csv |-> perf_agent_result["csv_data"]])

(***************************************************************************)
(* Requests served by the process, one at a time.                          *)
(***************************************************************************)
ApiStart(data) ==
    /\ LET h == start_workflow_handler(data, ApiFreshId) IN
        /\ h.started => Cardinality(DOMAIN api_sessions) < MaxApiSessions
        /\ api_response' = [op |-> "start", data |-> data, reply |-> h.reply]
        /\ api_sessions' = IF h.started
                           THEN Put(api_sessions, ApiFreshId,
                                    [op |-> "start", input |-> h.input, ran |-> << >>])
                           ELSE api_sessions
    /\ UNCHANGED <<orch_vars, pending, engine_vars>>

ApiStep(session_id, env) ==
    /\ api_response' = [op |-> "step", session_id |-> session_id,
                        reply |-> execute_workflow_step_handler(session_id, env)]
    /\ UNCHANGED api_sessions
    /\ UNCHANGED <<orch_vars, pending, engine_vars>>

ApiStatus(session_id) ==
    /\ api_response' = [op |-> "status", session_id |-> session_id,
                        reply |-> get_workflow_status_handler(session_id)]
    /\ UNCHANGED api_sessions
    /\ UNCHANGED <<orch_vars, pending, engine_vars>>

ApiDownload(session_id) ==
    /\ api_response' = [op |-> "download", session_id |-> session_id,
                        reply |-> download_performance_csv_handler(session_id)]
    /\ UNCHANGED api_sessions
    /\ UNCHANGED <<orch_vars, pending, engine_vars>>

ApiExecuteFull(data, env) ==
    /\ LET h == execute_full_workflow_handler(data, ApiFreshId, env) IN
        /\ h.started => Cardinality(DOMAIN api_sessions) < MaxApiSessions
        /\ api_response' = [op |-> "execute", data |-> data, env |-> env,
                            reply |-> h.reply, ran |-> h.ran]
        /\ api_sessions' = IF h.started
                           THEN Put(api_sessions, ApiFreshId,
                                    [op |-> "execute", input |-> h.input, ran |-> h.ran])
                           ELSE api_sessions
    /\ UNCHANGED <<orch_vars, pending, engine_vars>>

ApiNext ==
    \/ \E data \in RequestBodies : ApiStart(data)
    \/ \E session_id \in ApiSessionIds, env \in Environments : ApiStep(session_id, env)
    \/ \E session_id \in ApiSessionIds : ApiStatus(session_id)
    \/ \E data \in RequestBodies, env \in Environments : ApiExecuteFull(data, env)
    \/ \E session_id \in ApiSessionIds \cup {NoSessionId} : ApiDownload(session_id)

ApiSpec == Init /\ [][ApiNext]_vars

(***************************************************************************)
(* One session advanced by direct execute_next_step calls, next to         *)
(* POST /workflow/execute requests that run the same input through the     *)
(* handler's loop on an orchestrator of their own.                         *)
(***************************************************************************)
RunToCompletion(env) == ApiExecuteFull(active_contexts[1].user_input, env)

CompletionNext ==
    \/ \E env \in Environments : Advance(1, env)
    \/ \E env \in Environments : RunToCompletion(env)

CompletionSpec == SessionInit /\ [][CompletionNext]_vars

(***************************************************************************)
(* Properties.                                                             *)
(***************************************************************************)
Min(a, b) == IF a <= b THEN a ELSE b

IsFailurePayload(p) == IsDict(p) /\ Get(p, "status", "") = "failed"
IsSuccessPayload(p) == IsDict(p) /\ Get(p, "status", "") = "success"

Outputs(s) == active_contexts[s].agent_outputs
Pointer(s) == active_contexts[s].current_step

\* the step is an execute_next_step call made on registered session s
AdvanceOn(s) == s \in DOMAIN calls /\ calls'[s] = calls[s] + 1

\* C1: for every session of the orchestrator, after k execute_next_step calls
\* on it, whatever the stages' outcomes, current_step = min(k, total_steps),
\* and total_steps is 6.
C1_PointerIsMinOfCallsAndTotal ==
    \A s \in DOMAIN active_contexts :
        /\ active_contexts[s].total_steps = 6
        /\ Pointer(s) = Min(calls[s], active_contexts[s].total_steps)

C1_Witness ==
    \E s \in DOMAIN active_contexts :
        /\ calls[s] > active_contexts[s].total_steps
        /\ Pointer(s) = active_contexts[s].total_steps
        /\ \E a \in DOMAIN Outputs(s) : IsFailurePayload(Outputs(s)[a].output)

\* C2: under sequential start/advance/status calls, current_step of every
\* session stays within 0..total_steps, and a call made when current_step
\* equals total_steps executes no stage.
C2_PointerBoundedAndTerminal ==
    [][ /\ \A s \in DOMAIN active_contexts' :
              /\ active_contexts'[s].current_step >= 0
              /\ active_contexts'[s].current_step <= active_contexts'[s].total_steps
        /\ \A s \in DOMAIN active_contexts :
              Pointer(s) = active_contexts[s].total_steps
                  => executed'[s] = executed[s] ]_vars

C2_Witness ==
    \E s \in DOMAIN active_contexts :
        /\ Pointer(s) = active_contexts[s].total_steps
        /\ calls[s] = active_contexts[s].total_steps + 2
        /\ Len(executed[s]) = active_contexts[s].total_steps

\* C3: execute_next_step on a session whose current_step equals total_steps
\* returns status 'completed' and leaves the session (agent_outputs,
\* current_step) as it was; a repeated call returns the same value.
C3_AdvanceAfterCompletion ==
    [][ \A s \in DOMAIN active_contexts :
          (AdvanceOn(s) /\ Pointer(s) = active_contexts[s].total_steps)
            => /\ response'.op = "advance" /\ response'.session_id = s
               /\ Get(response'.value, "status", "") = "completed"
               /\ active_contexts' = active_contexts
               /\ executed' = executed
               /\ ( ( response.op = "advance" /\ response.session_id = s
                      /\ Get(response.value, "status", "") = "completed" )
                    => response'.value = response.value ) ]_vars

C3_Witness ==
    /\ response.op = "advance"
    /\ Get(response.value, "status", "") = "completed"
    /\ response.session_id \in DOMAIN calls
    /\ calls[response.session_id] = active_contexts[response.session_id].total_steps + 2
    /\ response.value.results = Outputs(response.session_id)

\* C4: a call that executes a stage adds exactly 1 to current_step and
\* returns 'in_progress', whether the stage succeeded, returned a failure
\* payload or raised; a call on a session that is not complete executes the
\* stage at the pointer whatever was recorded before; current_step never
\* decreases.
C4_AdvanceAlwaysAdvances ==
    [][ \A s \in DOMAIN active_contexts :
          /\ s \in DOMAIN active_contexts'
          /\ active_contexts'[s].current_step >= Pointer(s)
          /\ (AdvanceOn(s) /\ executed'[s] # executed[s])
                => /\ active_contexts'[s].current_step = Pointer(s) + 1
                   /\ Get(response'.value, "status", "") = "in_progress"
          /\ (AdvanceOn(s) /\ Pointer(s) < active_contexts[s].total_steps)
                => executed'[s] = Append(executed[s], agents[Pointer(s) + 1]) ]_vars

\* a returned failure, then a raised one, then a success, in one session
C4_Witness ==
    \E s \in DOMAIN active_contexts :
        /\ DOMAIN Outputs(s) = { "BoatImageAnalyzer", "BoatProfileBuilder",
                                 "PerformanceCurveGenerator", "TelemetryDataProcessor",
                                 "VoyageAnalyticsEngine" }
        /\ IsFailurePayload(Outputs(s)["BoatProfileBuilder"].output)
        /\ "agent" \notin DOMAIN Outputs(s)["BoatProfileBuilder"].output
        /\ "agent" \in DOMAIN Outputs(s)["TelemetryDataProcessor"].output
        /\ IsSuccessPayload(Outputs(s)["VoyageAnalyticsEngine"].output)
        /\ Pointer(s) = 5

\* C5: run_to_completion stops at the first stage whose result is a failure
\* payload: no later stage is executed, and the reply is a failure naming
\* that step and carrying the results of the steps before it.
C5_RunStopsAtFirstFailure ==
    api_response.op = "execute" =>
        \A i \in DOMAIN api_response.ran :
            IsFailurePayload(api_response.ran[i].result)
              => /\ Len(api_response.ran) = i
                 /\ api_response.reply.http_status # 200
                 /\ Get(api_response.reply.body, "error", "")
                        = "Workflow failed at step " \o ToString(i)
                 /\ Len(Get(api_response.reply.body, "completed_steps", << >>)) = i - 1

\* C6: a session created by the HTTP start handler is found by every later
\* step or status request that carries its session_id: no such request is
\* answered 'Invalid session ID'.
C6_StartedSessionIsFound ==
    ( /\ api_response.op \in {"step", "status"}
      /\ api_response.session_id \in DOMAIN api_sessions
      /\ api_sessions[api_response.session_id].op = "start" )
        => Get(api_response.reply.body, "error", "") # "Invalid session ID"

\* C7: BaseAgent.execute always returns a payload and always records it:
\* whether the stage's computation returned a success, returned a failure
\* or raised, agent_outputs then holds, under the stage's name, exactly the
\* payload execute returned.
C7_ExecuteAlwaysRecords ==
    [][ (calls'[1] = calls[1] + 1)
          => /\ response'.op = "execute"
             /\ Get(response'.value, "status", "") \in {"success", "failed"}
             /\ response'.agent \in DOMAIN active_contexts'[1].agent_outputs
             /\ active_contexts'[1].agent_outputs[response'.agent].output
                    = response'.value ]_vars

C7_Witness ==
    /\ response.op = "execute"
    /\ "agent" \in DOMAIN response.value
    /\ response.value.agent = response.agent
    /\ Outputs(1)[response.agent].output = response.value
    /\ \E a \in DOMAIN Outputs(1) : IsSuccessPayload(Outputs(1)[a].output)
    /\ \E a \in DOMAIN Outputs(1) :
           IsFailurePayload(Outputs(1)[a].output) /\ "agent" \notin DOMAIN Outputs(1)[a].output

\* C8: every failure payload recorded in agent_outputs, produced by the
\* wrapper from an exception or returned by the stage's own computation,
\* holds an error message and the name of the stage it comes from.
C8_FailurePayloadNamesStage ==
    \A s \in DOMAIN active_contexts :
        \A a \in DOMAIN Outputs(s) :
            IsFailurePayload(Outputs(s)[a].output)
              => /\ "error" \in DOMAIN Outputs(s)[a].output
                 /\ "agent" \in DOMAIN Outputs(s)[a].output
                 /\ Outputs(s)[a].output.agent = a

\* C9: stage 2 records a failure and computes no profile whenever stage 1's
\* recorded result is missing or a failure; stage 3 records a failure and
\* computes no curves whenever stage 2's recorded result is missing or a
\* failure.
ShortCircuits(stage, upstream, computed) ==
    ( /\ calls'[1] = calls[1] + 1
      /\ response'.agent = stage
      /\ ~IsSuccessPayload(get_agent_output(active_contexts[1], upstream)) )
        => /\ IsFailurePayload(response'.value)
           /\ computed \notin DOMAIN response'.value
           /\ active_contexts'[1].agent_outputs[stage].output = response'.value

C9_DependentStagesShortCircuit ==
    [][ /\ ShortCircuits("BoatProfileBuilder", "BoatImageAnalyzer", "normalized_profile")
        /\ ShortCircuits("PerformanceCurveGenerator", "BoatProfileBuilder",
                         "performance_curves") ]_vars

\* stage 2 failed on a missing stage 1, then stage 3 failed on the failed stage 2
C9_Witness ==
    /\ response.op = "execute"
    /\ response.agent = "PerformanceCurveGenerator"
    /\ IsFailurePayload(response.value)
    /\ DOMAIN Outputs(1) = {"BoatProfileBuilder", "PerformanceCurveGenerator"}
    /\ IsFailurePayload(Outputs(1)["BoatProfileBuilder"].output)

\* C10: stage 5 returns a success payload only if the recorded results of
\* stages 2, 3 and 4 are all successes; otherwise it records its own failure.
C10_AnalyticsNeedsThreeSuccesses ==
    \A s \in DOMAIN active_contexts :
        ( /\ "VoyageAnalyticsEngine" \in DOMAIN Outputs(s)
          /\ IsSuccessPayload(Outputs(s)["VoyageAnalyticsEngine"].output) )
            => \A a \in { "BoatProfileBuilder", "PerformanceCurveGenerator",
                          "TelemetryDataProcessor" } :
                   /\ a \in DOMAIN Outputs(s)
                   /\ IsSuccessPayload(Outputs(s)[a].output)

\* C11: stage 6 records a success payload only if at least 4 of the 5 prior
\* stages have a recorded result that is a success payload; with fewer it
\* records a failure.
SuccessfulPriorAgents(s) ==
    { a \in PriorAgents :
        a \in DOMAIN Outputs(s) /\ IsSuccessPayload(Outputs(s)[a].output) }

C11_ReportNeedsFourSuccesses ==
    \A s \in DOMAIN active_contexts :
        ( /\ "ReportChartGenerator" \in DOMAIN Outputs(s)
          /\ IsSuccessPayload(Outputs(s)["ReportChartGenerator"].output) )
            => Cardinality(SuccessfulPriorAgents(s)) >= 4

\* C12: get_workflow_status is a pure read: a status call changes no
\* session's current_step, agent_outputs or state and leaves the registry as
\* it was; what it returns is the session as it stands, so status calls with
\* no advance between them return identical content.
C12_StatusIsPureRead ==
    [][ response'.op = "status" =>
          /\ active_contexts' = active_contexts
          /\ executed' = executed
          /\ \A s \in DOMAIN active_contexts :
                response'.session_id = s =>
                  /\ response'.value.current_step = Pointer(s)
                  /\ response'.value.agent_outputs = Outputs(s)
                  /\ response'.value.workflow_state = active_contexts[s].workflow_state
                  /\ ( (response.op = "status" /\ response.session_id = s)
                         => response'.value = response.value ) ]_vars

C12_Witness ==
    /\ response.op = "status"
    /\ response.session_id \in DOMAIN active_contexts
    /\ Pointer(response.session_id) >= 2
    /\ response.value.current_step = Pointer(response.session_id)
    /\ DOMAIN response.value.agent_outputs = DOMAIN Outputs(response.session_id)
    /\ Cardinality(DOMAIN Outputs(response.session_id)) >= 2

\* C13: execute_next_step and get_workflow_status called with a session id
\* that is not in the registry return the 'Invalid session ID' error, execute
\* no stage, create no session and leave every registered session unchanged.
C13_UnknownSessionIsRejected ==
    [][ ( /\ response'.op \in {"advance", "status"}
          /\ response'.session_id \notin DOMAIN active_contexts )
            => /\ response'.value = [error |-> "Invalid session ID"]
               /\ active_contexts' = active_contexts
               /\ executed' = executed ]_vars

C13_Witness ==
    /\ response.op = "advance"
    /\ response.session_id \notin DOMAIN active_contexts
    /\ "error" \in DOMAIN response.value
    /\ \E s \in DOMAIN active_contexts : Pointer(s) >= 1

\* C14: agent_outputs only grows or is overwritten: no step removes a stage
\* name recorded in a session, and no step removes a session from the
\* registry.
C14_NothingIsForgotten ==
    [][ \A s \in DOMAIN active_contexts :
          /\ s \in DOMAIN active_contexts'
          /\ DOMAIN Outputs(s) \subseteq DOMAIN active_contexts'[s].agent_outputs ]_vars

C14_Witness ==
    /\ Cardinality(DOMAIN active_contexts) = 2
    /\ \E s \in DOMAIN active_contexts :
          /\ DOMAIN Outputs(s) = AgentNames
          /\ calls[s] > active_contexts[s].total_steps

\* C15: executing a stage writes only the agent_outputs entry keyed by that
\* stage's own name: the entries of the other stages of the session are as
\* before, no other name appears, and every other session is unchanged.
C15_StageWritesOnlyItsOwnEntry ==
    [][ \A s \in DOMAIN active_contexts :
          IF Len(executed'[s]) > Len(executed[s])
          THEN LET name == executed'[s][Len(executed'[s])] IN
               /\ DOMAIN active_contexts'[s].agent_outputs = DOMAIN Outputs(s) \cup {name}
               /\ \A n \in DOMAIN Outputs(s) \ {name} :
                      active_contexts'[s].agent_outputs[n] = Outputs(s)[n]
               /\ \A t \in DOMAIN active_contexts \ {s} :
                      active_contexts'[t] = active_contexts[t]
          ELSE active_contexts'[s].agent_outputs = Outputs(s) ]_vars

C15_Witness ==
    /\ response.op = "advance"
    /\ response.session_id \in DOMAIN active_contexts
    /\ "agent_name" \in DOMAIN response.value
    /\ response.value.agent_name \in DOMAIN Outputs(response.session_id)
    /\ Cardinality(DOMAIN Outputs(response.session_id)) >= 3
    /\ \E t \in DOMAIN active_contexts \ {response.session_id} :
          Cardinality(DOMAIN Outputs(t)) >= 2

\* C16: POST /workflow/execute is POST /workflow/start followed by repeated
\* execute_next_step: it answers with a failure, starting nothing, exactly
\* when start would for the same body, and otherwise the session it reports
\* has the current_step and the recorded stage outcomes of a session started
\* with that body and advanced as many times.
RECURSIVE AdvancedTimes(_, _, _, _)
AdvancedTimes(registry, session_id, env, k) ==
    IF k = 0 THEN registry
    ELSE CHOOSE y \in { execute_next_step(before, session_id, env).registry :
                          before \in {AdvancedTimes(registry, session_id, env, k - 1)} } : TRUE

C16_RunEqualsStartThenAdvance ==
    api_response.op = "execute" =>
        LET started == start_workflow_handler(api_response.data, 1)
            reply == api_response.reply
        IN  IF ~started.started
            THEN /\ reply.http_status = started.reply.http_status
                 /\ reply.body.error = started.reply.body.error
            ELSE /\ reply.http_status = 200
                 /\ LET stepped ==
                           AdvancedTimes(start_workflow(NewOrchestrator, 1, started.input),
                                         1, api_response.env, Len(api_response.ran))
                     IN  /\ reply.body.final_status.current_step = stepped[1].current_step
                         /\ reply.body.final_status.agent_outputs = stepped[1].agent_outputs

\* C17: the download of a session's performance curves returns the stage-3
\* table (csv_data) when stage 3 has a recorded success for that session, and
\* fails when the session is unknown or stage 3 has no recorded success.
CurvesRecorded(session_id) ==
    IF session_id \notin DOMAIN api_sessions THEN {}
    ELSE { api_sessions[session_id].ran[i].result :
             i \in { j \in DOMAIN api_sessions[session_id].ran :
                       /\ api_sessions[session_id].ran[j].agent = "PerformanceCurveGenerator"
                       /\ IsSuccessPayload(api_sessions[session_id].ran[j].result) } }

C17_DownloadReturnsCurves ==
    api_response.op = "download" =>
        IF CurvesRecorded(api_response.session_id) = {}
        THEN api_response.reply.http_status # 200
        ELSE /\ api_response.reply.http_status = 200
             /\ \E result \in CurvesRecorded(api_response.session_id) :
                    api_response.reply.body = [csv |-> result.csv_data]

\* C18: for manual input (manual_data an object), validation fails exactly
\* when builder_make or class_model is absent or empty, and the error lists
\* every missing required field, both in POST /workflow/start and in stage 1
\* (reached through POST /workflow/execute, which does not validate); a start
\* that fails validation creates no session.
IsManualBody(data) ==
    /\ "image_data" \notin DOMAIN data
    /\ "manual_data" \in DOMAIN data
    /\ IsDict(data["manual_data"])

Lacks(manual_data, field) ==
    field \notin DOMAIN manual_data \/ manual_data[field] = ""

MissingMessage(manual_data) ==
    IF Lacks(manual_data, "builder_make") /\ Lacks(manual_data, "class_model")
    THEN "Missing required fields: builder_make, class_model"
    ELSE IF Lacks(manual_data, "builder_make")
    THEN "Missing required fields: builder_make"
    ELSE IF Lacks(manual_data, "class_model")
    THEN "Missing required fields: class_model"
    ELSE ""

C18_ManualInputValidation ==
    [][ /\ ( api_response'.op = "start" /\ IsManualBody(api_response'.data) ) =>
              LET manual_data == api_response'.data["manual_data"]
                  reply == api_response'.reply
              IN  IF MissingMessage(manual_data) = ""
                  THEN reply.http_status = 200
                  ELSE /\ reply.http_status = 400
                       /\ reply.body.error = MissingMessage(manual_data)
                       /\ api_sessions' = api_sessions
        /\ ( api_response'.op = "execute" /\ IsManualBody(api_response'.data) ) =>
              LET manual_data == api_response'.data["manual_data"]
                  stage1 == api_response'.ran[1]
              IN  /\ stage1.agent = "BoatImageAnalyzer"
                  /\ IF MissingMessage(manual_data) = ""
                     THEN IsSuccessPayload(stage1.result)
                     ELSE /\ IsFailurePayload(stage1.result)
                          /\ stage1.result.error = MissingMessage(manual_data) ]_vars

C18_Witness ==
    /\ api_response.op = "start"
    /\ api_response.data = [manual_data |-> << >>]
    /\ api_response.reply.http_status = 400
    /\ api_response.reply.body.error = "Missing required fields: builder_make, class_model"
    /\ \E s \in DOMAIN api_sessions :
          /\ api_sessions[s].op = "execute"
          /\ api_sessions[s].input = [manual_data |-> [builder_make |-> "Acme"]]
          /\ api_sessions[s].ran[1].result.error = "Missing required fields: class_model"

\* C19: for a session started with manual_data holding only builder_make and
\* class_model, six execute_next_step calls give a stage-1 result with status
\* success that contains the placeholder inferred dimensions (25 by 8), and
\* a stage-6 result whose deliverables.json_compatible is true.
C19_NamedBoatRunsToReport ==
    \A s \in DOMAIN active_contexts :
        ( /\ active_contexts[s].user_input = ManualWithoutDimensions
          /\ calls[s] >= 6 )
            => /\ AgentNames \subseteq DOMAIN Outputs(s)
               /\ LET stage1 == Outputs(s)["BoatImageAnalyzer"].output
                       stage6 == Outputs(s)["ReportChartGenerator"].output
                   IN  /\ IsSuccessPayload(stage1)
                       /\ "boat_specifications" \in DOMAIN stage1
                       /\ "inferred_specifications" \in DOMAIN stage1.boat_specifications
                       /\ stage1.boat_specifications.inferred_specifications.estimated_length = 25
                       /\ stage1.boat_specifications.inferred_specifications.estimated_beam = 8
                       /\ IsSuccessPayload(stage6)
                       /\ stage6.deliverables.json_compatible = TRUE

C19_Witness ==
    /\ 1 \in DOMAIN active_contexts
    /\ active_contexts[1].user_input = ManualWithoutDimensions
    /\ calls[1] = 6
    /\ executed[1] = agents
    /\ response.op = "advance"
    /\ response.value.agent_name = "ReportChartGenerator"

\* C20: execute_next_step calls on one session that overlap at the await of
\* agent.execute each execute the stage at the index they read before it,
\* whatever the pointer has become, and each add 1 to current_step; so two
\* calls that read the same current_step run the same stage twice, a stage
\* index is skipped and current_step ends above total_steps.
C20_OverlappingAdvancesBothCount ==
    [][ \A caller \in DOMAIN pending :
          caller \notin DOMAIN pending' =>
            /\ executed'[1] = Append(executed[1], agents[pending[caller].index + 1])
            /\ active_contexts'[1].current_step = Pointer(1) + 1
            /\ active_contexts'[1].current_step = Len(executed'[1]) ]_vars

C20_Witness ==
    /\ pending = << >>
    /\ sweep = NoSweep
    /\ telemetry = NoTelemetry
    /\ Pointer(1) > active_contexts[1].total_steps
    /\ \E i \in 1 .. (Len(executed[1]) - 1) : executed[1][i] = executed[1][i + 1]
    /\ \E a \in AgentNames : a \notin DOMAIN Outputs(1)


\* C21: execute_next_step calls on different sessions of one orchestrator
\* are independent: however the calls of the sessions interleave and overlap,
\* after k calls on a session have returned the session has the current_step
\* and, stage name by stage name, the recorded step indices of a session
\* started with the same input and advanced k times alone.
RecordedSteps(context) ==
    [a \in DOMAIN context.agent_outputs |-> context.agent_outputs[a].step]

ReturnedCalls(s) ==
    calls[s] - Cardinality({c \in DOMAIN pending : pending[c].session_id = s})

RunAlone(s) ==
    AdvancedTimes(start_workflow(NewOrchestrator, s, active_contexts[s].user_input),
                  s, CHOOSE env \in Environments : TRUE, ReturnedCalls(s))[s]

C21_SessionsAreIndependent ==
    \A s \in DOMAIN active_contexts :
        /\ Pointer(s) = RunAlone(s).current_step
        /\ RecordedSteps(active_contexts[s]) = RecordedSteps(RunAlone(s))
        /\ Len(executed[s]) = Pointer(s)
        /\ \A i \in DOMAIN executed[s] : executed[s][i] = agents[i]

\* two calls on different sessions are suspended at once, each session
\* having completed steps before
C21_Witness ==
    /\ \E c, d \in DOMAIN pending :
          /\ pending[c].session_id # pending[d].session_id
          /\ Pointer(pending[c].session_id) >= 3
          /\ Pointer(pending[d].session_id) >= 2
    /\ \E s \in DOMAIN active_contexts :
          Cardinality(DOMAIN Outputs(s)) >= 3


\* C22: profile normalization carries the length and the beam of the stage-1
\* specifications into length_ft and beam_ft for both input shapes: for
\* image-derived attributes (vision fields LENGTH and BEAM) and for manual
\* attributes (length, beam) the normalized value is the value supplied.
SuppliedFeet(boat_specs, vision_field, manual_field) ==
    IF vision_field \in DOMAIN boat_specs
    THEN {FloatOfFeet(boat_specs[vision_field])}
    ELSE IF manual_field \in DOMAIN boat_specs
    THEN {boat_specs[manual_field]}
    ELSE {}

C22_ProfileKeepsDimensions ==
    \A s \in DOMAIN active_contexts :
        ( /\ "BoatProfileBuilder" \in DOMAIN Outputs(s)
          /\ IsSuccessPayload(Outputs(s)["BoatProfileBuilder"].output) )
            => LET boat_specs == Outputs(s)["BoatImageAnalyzer"].output.boat_specifications
                   physical == Outputs(s)["BoatProfileBuilder"].output
                                   .normalized_profile.physical_specifications
               IN  /\ \A feet \in SuppliedFeet(boat_specs, "LENGTH", "length") :
                          physical.length_ft = feet
                   /\ \A feet \in SuppliedFeet(boat_specs, "BEAM", "beam") :
                          physical.beam_ft = feet


\* C23: in the resistance sweep the row at speed 0 has thrust, shaft power
\* and power demand all 0, whatever the (positive) length and beam, and the
\* friction formula (log10 of the Reynolds number) is evaluated at positive
\* speeds only: no sweep raises.
FrictionEvaluated(row) == "py_type" \notin DOMAIN row.Re

C23_ZeroSpeedRowIsZero ==
    sweep.op = "sweep" =>
        /\ ~sweep.raised
        /\ sweep.csv_lines # << >> =>
              /\ sweep.csv_lines[1] = [ speed_mps |-> 0, thrust_N |-> 0,
                                        shaft_power_W |-> 0, battery_demand_W |-> 0 ]
              /\ ~FrictionEvaluated(sweep.rows[1])
        /\ \A i \in DOMAIN sweep.rows :
              FrictionEvaluated(sweep.rows[i])
                => sweep.csv_lines[i].speed_mps > 0 /\ sweep.rows[i].Re.m > 0

C23_Witness ==
    /\ sweep.op = "sweep"
    /\ sweep.returned
    /\ Len(sweep.csv_lines) >= 3
    /\ sweep.csv_lines[1].speed_mps = 0 /\ sweep.csv_lines[1].thrust_N = 0
    /\ FrictionEvaluated(sweep.rows[2])

\* C24: in the resistance sweep, at every sampled speed v > 0 the thrust,
\* the shaft power and the power demand computed for the row are strictly
\* positive, and each of the three is non-decreasing from one sampled speed
\* to the next, in the quantities computed and in the rows emitted.
Positive(x) == x.m > 0

FFloor(x) ==
    IF x.m = 0 THEN 0
    ELSE IF x.e >= 0 THEN x.m * Pow10(x.e)
    ELSE IF x.e <= -5 THEN 0
    ELSE x.m \div Pow10(-x.e)

ClaimedServiceSpeed(length_m) ==
    FMin(FMul(FMul(Flt(5, -1), Flt(134, -2)), FSqrt(length_m)), Flt(15, 0))

C25_RowCountFollowsServiceSpeed ==
    sweep.op = "sweep" =>
        /\ \A i \in DOMAIN sweep.csv_lines : sweep.csv_lines[i].speed_mps = 25 * (i - 1)
        /\ sweep.returned =>
              /\ Len(sweep.csv_lines)
                    = FFloor(FDiv(ClaimedServiceSpeed(sweep.length_m), Flt(25, -2))) + 1
              /\ sweep.length_ft = 30 =>
                    /\ Len(sweep.csv_lines) = 9
                    /\ sweep.csv_lines[9].speed_mps = 200

\* a sweep capped at the service speed of 15.0 has returned
C25_Witness ==
    /\ sweep.op = "sweep"
    /\ sweep.returned
    /\ sweep.service_speed_ms = Flt(15, 0)
    /\ Len(sweep.csv_lines) = 61
    /\ sweep.csv_lines[61].speed_mps = 1500

\* C26: the wetted-surface estimate uses the block coefficient of the
\* displacement estimate (0.35 for the RHIB hull type, 0.45 for every other
\* hull type): draft_est is the cube root of
\* displacement / (rho_water * length * beam * Cb) for every hull type.
BlockCoefficient(boat_type) ==
    IF Upper(boat_type) = "RHIB" THEN Flt(35, -2) ELSE Flt(45, -2)

ClaimedWettedSurface(length_m, beam_m, displacement, boat_type) ==
    LET draft_est ==
            FCbrt(FDiv(displacement,
                       FMul(FMul(FMul(Flt(1025, 0), length_m), beam_m),
                            BlockCoefficient(boat_type))))
    IN  FMul(FMul(length_m, FAdd(FMul(Flt(2, 0), draft_est), beam_m)), Flt(85, -2))

C26_WettedSurfaceUsesHullCoefficient ==
    sweep.op = "sweep" =>
        sweep.wetted_surface
            = ClaimedWettedSurface(sweep.length_m, sweep.beam_m, sweep.displacement,
                                   sweep.boat_type)


\* C27: telemetry segmentation splits the sample sequence into maximal
\* contiguous runs of equal docked flag (docked iff speed < 0.5): a run of
\* at least 2 samples is retained whole, in the dwell set iff its samples
\* are docked and in the voyage set otherwise; a run of a single sample is
\* discarded; nothing else is retained; and no sample belongs to more than
\* one retained run.
Docked(frame, i) == frame[i].speed_over_water < 5

\* the samples a..b of the frame are a maximal run of one docked flag
MaximalRun(frame, a, b) ==
    /\ a <= b
    /\ \A i \in a..b : Docked(frame, i) = Docked(frame, a)
    /\ a = 1 \/ Docked(frame, a - 1) # Docked(frame, a)
    /\ b = Len(frame) \/ Docked(frame, b + 1) # Docked(frame, b)

Retained(run_list) == { run_list[k] : k \in DOMAIN run_list }

RetainedIn(run_list, timestamp) ==
    { k \in DOMAIN run_list :
        \E j \in DOMAIN run_list[k] : run_list[k][j].timestamp = timestamp }

C27_SegmentationKeepsMaximalRuns ==
    (telemetry.op = "frame" /\ telemetry.separated) =>
        LET frame == telemetry.frame
            voyages == telemetry.voyage_sets.away_from_dock
            dwells == telemetry.voyage_sets.at_dock
        IN  /\ \A a \in DOMAIN frame : \A b \in DOMAIN frame :
                  MaximalRun(frame, a, b) =>
                      IF b - a + 1 >= 2
                      THEN /\ SubSeq(frame, a, b) \in Retained(dwells) <=> Docked(frame, a)
                           /\ SubSeq(frame, a, b) \in Retained(voyages) <=> ~Docked(frame, a)
                      ELSE /\ RetainedIn(voyages, a) = {}
                           /\ RetainedIn(dwells, a) = {}
            /\ \A run \in Retained(voyages) \cup Retained(dwells) :
                  /\ Len(run) >= 2
                  /\ MaximalRun(frame, run[1].timestamp, run[Len(run)].timestamp)
                  /\ run = SubSeq(frame, run[1].timestamp, run[Len(run)].timestamp)
            /\ \A i \in DOMAIN frame :
                  Cardinality(RetainedIn(voyages, i)) + Cardinality(RetainedIn(dwells, i)) <= 1

\* a frame with a retained dwell, a retained voyage and a discarded single
\* sample between them has been separated
C27_Witness ==
    /\ telemetry.op = "frame"
    /\ telemetry.separated
    /\ telemetry.voyage_sets.at_dock # << >>
    /\ telemetry.voyage_sets.away_from_dock # << >>
    /\ \E i \in DOMAIN telemetry.frame :
          /\ MaximalRun(telemetry.frame, i, i)
          /\ RetainedIn(telemetry.voyage_sets.away_from_dock, i) = {}
          /\ RetainedIn(telemetry.voyage_sets.at_dock, i) = {}

\* C28: the number of voyages analysed in stage 5 (total_voyages) equals
\* the voyage count reported by stage 4 (telemetry_summary.voyage_count),
\* and likewise total_dwell_periods and dwell_periods.
C28_AnalyticsCoverEveryVoyage ==
    \A s \in DOMAIN active_contexts :
        ( /\ "VoyageAnalyticsEngine" \in DOMAIN Outputs(s)
          /\ IsSuccessPayload(Outputs(s)["VoyageAnalyticsEngine"].output)
          /\ "total_voyages" \in DOMAIN Outputs(s)["VoyageAnalyticsEngine"].output.voyage_analytics )
        => LET telemetry_data == Outputs(s)["TelemetryDataProcessor"].output
               analytics == Outputs(s)["VoyageAnalyticsEngine"].output
           IN  /\ analytics.voyage_analytics.total_voyages
                     = telemetry_data.telemetry_summary.voyage_count
               /\ analytics.dwell_analytics.total_dwell_periods
                     = telemetry_data.telemetry_summary.dwell_periods

\* C29: in dwell analytics the estimated tank capacity is 2 gallons per
\* foot of the length_ft of the session's normalized profile, and no dwell
\* period's estimated refuel amount exceeds that capacity.
C29_TankCapacityFollowsProfileLength ==
    \A s \in DOMAIN active_contexts :
        ( /\ "VoyageAnalyticsEngine" \in DOMAIN Outputs(s)
          /\ IsSuccessPayload(Outputs(s)["VoyageAnalyticsEngine"].output)
          /\ IsSuccessPayload(Outputs(s)["BoatProfileBuilder"].output) )
        => LET dwell_analytics == Outputs(s)["VoyageAnalyticsEngine"].output.dwell_analytics
               length_ft == Outputs(s)["BoatProfileBuilder"].output.normalized_profile
                                .physical_specifications.length_ft
           IN  /\ dwell_analytics.estimated_tank_capacity_gallons = 2 * length_ft
               /\ \A i \in DOMAIN dwell_analytics.dwell_details :
                     dwell_analytics.dwell_details[i].estimated_refuel_amount_gallons
                         <= 100 * 2 * length_ft


\* C30: the report's recommendation list contains the
\* auxiliary-electrification entry exactly when the normalized profile's
\* auxiliary_systems flag is true, and the commercial-incentive entry
\* exactly when its commercial_operation flag is true.
Recommends(recommendations, entry) ==
    \E i \in DOMAIN recommendations : recommendations[i] = entry

C30_RecommendationsFollowProfileFlags ==
    \A s \in DOMAIN active_contexts :
        ( /\ "ReportChartGenerator" \in DOMAIN Outputs(s)
          /\ IsSuccessPayload(Outputs(s)["ReportChartGenerator"].output)
          /\ IsSuccessPayload(Outputs(s)["BoatProfileBuilder"].output) )
        => LET recommendations ==
                   Outputs(s)["ReportChartGenerator"].output.comprehensive_report
                       .recommendations
               operational ==
                   Outputs(s)["BoatProfileBuilder"].output.normalized_profile
                       .operational_profile
           IN  /\ Recommends(recommendations,
                    "Evaluate AUXiliary system electrification for dwell periods to reduce emissions")
                    <=> operational.auxiliary_systems
               /\ Recommends(recommendations,
                    "Explore COMMERCIAL incentives for fuel efficiency improvements and emission reductions")
                    <=> operational.commercial_operation


\* C31: the execute_next_step call that executes the last stage (the sixth
\* call on a session) returns status 'in_progress' with current_step = 6, and
\* 'completed' is first returned by the seventh call; so the loop of
\* execute_full_workflow, bounded at 6 iterations, ends after exactly 6
\* execute_next_step calls, none of which returned 'completed', and reports
\* 6 step results.
C31_LastStageReturnsInProgress ==
    /\ response.op = "advance" =>
         /\ calls[1] <= 6 =>
              /\ response.value.status = "in_progress"
              /\ response.value.current_step = calls[1]
              /\ response.value.agent_name = agents[calls[1]]
         /\ calls[1] >= 7 => response.value.status = "completed"
    /\ (api_response.op = "execute" /\ api_response.reply.http_status = 200) =>
         LET body == api_response.reply.body IN
         /\ Len(api_response.ran) = 6
         /\ [i \in 1 .. 6 |-> api_response.ran[i].agent] = agents
         /\ Len(body.step_results) = 6
         /\ body.total_steps_completed = 6
         /\ \A i \in 1 .. 6 : body.step_results[i].status = "in_progress"
         /\ body.final_status.current_step = 6

C31_Witness ==
    /\ response.op = "advance"
    /\ calls[1] = 7
    /\ response.value.status = "completed"
    /\ api_response.op = "execute"
    /\ api_response.reply.http_status = 200
    /\ Len(api_response.reply.body.step_results) = 6
    /\ api_response.reply.body.step_results[6].agent_name = "ReportChartGenerator"
    /\ api_response.reply.body.step_results[6].status = "in_progress"


\* C32: in every state reached by sequential calls, the stage names recorded
\* in a session's agent_outputs are exactly the names of the first
\* current_step stages of the fixed order, and the step recorded with each
\* entry is that stage's 0-based position (the pointer before its increment).
FixedOrder ==
    << "BoatImageAnalyzer", "BoatProfileBuilder", "PerformanceCurveGenerator",
       "TelemetryDataProcessor", "VoyageAnalyticsEngine", "ReportChartGenerator" >>

C32_RecordedStagesArePrefixOfOrder ==
    \A s \in DOMAIN active_contexts :
        /\ Pointer(s) \in 0 .. Len(FixedOrder)
        /\ DOMAIN Outputs(s) = { FixedOrder[i] : i \in 1 .. Pointer(s) }
        /\ \A i \in 1 .. Pointer(s) : Outputs(s)[FixedOrder[i]].step = i - 1

C32_Witness ==
    /\ Pointer(1) = 6
    /\ calls[1] > 6
    /\ Outputs(1)["ReportChartGenerator"].step = 5
    /\ Outputs(1)["BoatImageAnalyzer"].step = 0
    /\ IsFailurePayload(Outputs(1)["PerformanceCurveGenerator"].output)
    /\ IsSuccessPayload(Outputs(1)["TelemetryDataProcessor"].output)


\* C33: when stage 2's normalized profile has length_ft = 0 or beam_ft = 0
\* (which is what stage 2 produces for manual input without length and beam:
\* stage 1's placeholder estimates are stored under inferred_specifications
\* and are not read), stage 3's wetted-surface computation divides by zero;
\* the wrapper catches the exception and records a failed
\* PerformanceCurveGenerator result, and the session still advances to step 3.
ProfileDimensions(s) ==
    Outputs(s)["BoatProfileBuilder"].output.normalized_profile.physical_specifications

\* the result BaseAgent.execute builds in its except branch
IsCaughtException(result, agent) ==
    /\ DOMAIN result = {"error", "status", "agent"}
    /\ result.status = "failed"
    /\ result.agent = agent

C33_ZeroDimensionFailsCurves ==
    \A s \in DOMAIN active_contexts :
        /\ ( /\ active_contexts[s].user_input = ManualWithoutDimensions
             /\ Pointer(s) >= 2 )
              => /\ Outputs(s)["BoatImageAnalyzer"].output.boat_specifications
                        .inferred_specifications.estimated_length = 25
                 /\ IsSuccessPayload(Outputs(s)["BoatProfileBuilder"].output)
                 /\ ProfileDimensions(s).length_ft = 0
                 /\ ProfileDimensions(s).beam_ft = 0
        /\ ( /\ "PerformanceCurveGenerator" \in DOMAIN Outputs(s)
             /\ IsSuccessPayload(Outputs(s)["BoatProfileBuilder"].output)
             /\ ( \/ ProfileDimensions(s).length_ft = 0
                  \/ ProfileDimensions(s).beam_ft = 0 ) )
              => /\ IsCaughtException(Outputs(s)["PerformanceCurveGenerator"].output,
                                      "PerformanceCurveGenerator")
                 /\ Pointer(s) >= 3
                 /\ ( /\ response.op = "advance"
                      /\ response.session_id = s
                      /\ calls[s] = 3 )
                       => /\ response.value.status = "in_progress"
                          /\ response.value.current_step = 3
                          /\ response.value.agent_result =
                                 Outputs(s)["PerformanceCurveGenerator"].output

C33_Witness ==
    /\ active_contexts[1].user_input = ManualWithoutDimensions
    /\ calls[1] = 3
    /\ Pointer(1) = 3
    /\ response.op = "advance"
    /\ ProfileDimensions(1).length_ft = 0
    /\ IsCaughtException(Outputs(1)["PerformanceCurveGenerator"].output,
                         "PerformanceCurveGenerator")


\* C34: start_workflow creates a fresh session with current_step = 0,
\* total_steps = 6, empty agent_outputs and workflow_state 'initialized',
\* registers it under a new id distinct from every registered id, executes no
\* stage, and leaves every session registered before unchanged.
StartReturned == response'.op = "start" /\ response' # response

C34_StartAddsOneFreshSession ==
    [][ StartReturned =>
          LET session_id == response'.value.session_id IN
          /\ session_id \notin DOMAIN active_contexts
          /\ DOMAIN active_contexts' = DOMAIN active_contexts \cup {session_id}
          /\ active_contexts'[session_id].current_step = 0
          /\ active_contexts'[session_id].total_steps = 6
          /\ active_contexts'[session_id].agent_outputs = << >>
          /\ active_contexts'[session_id].workflow_state = "initialized"
          /\ active_contexts'[session_id].user_input \in RegistryInputs
          /\ executed'[session_id] = << >>
          /\ \A s \in DOMAIN active_contexts :
                /\ active_contexts'[s] = active_contexts[s]
                /\ executed'[s] = executed[s] ]_vars

C34_Witness ==
    /\ response.op = "start"
    /\ response.value.session_id = 2
    /\ Pointer(1) = 3
    /\ Outputs(1) # << >>
    /\ Pointer(2) = 0
    /\ Outputs(2) = << >>


\* C35: a session's workflow_state is 'initialized' in every reachable
\* state, also after all six stages have run and after failures: no
\* operation writes it, and no operation's outcome depends on it
\* (execute_next_step returns and does the same whatever value the field
\* has, and get_workflow_status only copies the field into its reply).
WithState(registry, state) ==
    [s \in DOMAIN registry |-> [registry[s] EXCEPT !.workflow_state = state]]

OtherStates == {"running", "completed", "failed"}

C35_StateStaysInitialized ==
    /\ \A s \in DOMAIN active_contexts :
           active_contexts[s].workflow_state = "initialized"
    /\ \A s \in SessionIds, state \in OtherStates :
        /\ \A env \in Environments :
             LET as_is == execute_next_step(active_contexts, s, env)
                 other == execute_next_step(WithState(active_contexts, state), s, env)
             IN  /\ other.value = as_is.value
                 /\ other.ran = as_is.ran
                 /\ other.registry = WithState(as_is.registry, state)
        /\ LET as_is == get_workflow_status(active_contexts, s)
               other == get_workflow_status(WithState(active_contexts, state), s)
           IN  IF s \in DOMAIN active_contexts
               THEN other = [as_is EXCEPT !.workflow_state = state]
               ELSE other = as_is

C35_Witness ==
    /\ Pointer(1) = 6
    /\ calls[1] > 6
    /\ response.op = "status"
    /\ response.value.workflow_state = "initialized"
    /\ \E a \in AgentNames : IsFailurePayload(Outputs(1)[a].output)
    /\ IsSuccessPayload(Outputs(1)["ReportChartGenerator"].output)


\* C36: stage 4 (telemetry segmentation) reads no recorded stage result: its
\* success or failure is the same whatever the outcomes of stages 1 to 3, so
\* it can record a success in a session whose first three stages all failed.
UpstreamOfTelemetry ==
    {"BoatImageAnalyzer", "BoatProfileBuilder", "PerformanceCurveGenerator"}

C36_TelemetryIgnoresUpstream ==
    \A s \in DOMAIN active_contexts :
        /\ \A env \in Environments :
             LET here == execute("TelemetryDataProcessor", active_contexts[s], env)
                 alone == execute("TelemetryDataProcessor", NewContext(<< >>), env)
             IN  /\ here.result = alone.result
                 /\ IsSuccessPayload(here.result) <=> env.telemetry = "ok"
        /\ "TelemetryDataProcessor" \in DOMAIN Outputs(s)
              => \/ Outputs(s)["TelemetryDataProcessor"].output = telemetry_payload
                 \/ IsCaughtException(Outputs(s)["TelemetryDataProcessor"].output,
                                      "TelemetryDataProcessor")

C36_Witness ==
    /\ Pointer(1) = 4
    /\ response.op = "advance"
    /\ response.value.agent_name = "TelemetryDataProcessor"
    /\ \A a \in UpstreamOfTelemetry : IsFailurePayload(Outputs(1)[a].output)
    /\ IsSuccessPayload(Outputs(1)["TelemetryDataProcessor"].output)
    /\ Outputs(1)["TelemetryDataProcessor"].output.telemetry_summary.voyage_count > 0


\* C37: for every positive length, every speed sampled by the sweep
\* (0 < v <= service_speed = min(0.67 * sqrt(length), 15)) has a Froude number
\* v / sqrt(9.81 * length) below 0.4, so the residual-resistance branch for
\* Fn >= 0.4 is never taken and the discontinuity of the piecewise
\* coefficient at Fn = 0.4 is never crossed within a sweep.
ProbeLengths == 1 .. 120

CubicBranch(Froude_number) ==
    FMul(Flt(1, -3), FMul(FMul(FMul(Froude_number, Flt(10, 0)),
                               FMul(Froude_number, Flt(10, 0))),
                          FMul(Froude_number, Flt(10, 0))))

SampledSpeed(i) == Flt(25 * (i - 1), -2)

C37_SweepStaysBelowFroudeBreak ==
    /\ \A length_ft \in ProbeLengths :
         LET length_m == FMul(Flt(length_ft, 0), Flt(3048, -4))
         IN  FLt(Fn(_estimate_service_speed(length_m), length_m), Flt(4, -1))
    /\ sweep.op = "sweep" =>
         /\ FLt(Fn(sweep.service_speed_ms, sweep.length_m), Flt(4, -1))
         /\ \A i \in DOMAIN sweep.rows :
              i > 1 =>
                /\ FLe(SampledSpeed(i), sweep.service_speed_ms)
                /\ FLt(Fn(SampledSpeed(i), sweep.length_m), Flt(4, -1))
                /\ Cr_coeff(Fn(SampledSpeed(i), sweep.length_m))
                      = CubicBranch(Fn(SampledSpeed(i), sweep.length_m))

\* a returned sweep whose last sampled speed has a Froude number above 0.2
C37_Witness ==
    /\ sweep.op = "sweep"
    /\ sweep.returned
    /\ sweep.length_ft = 100
    /\ Len(sweep.rows) = 15
    /\ FLt(Flt(2, -1), Fn(SampledSpeed(Len(sweep.rows)), sweep.length_m))
    /\ FLt(Fn(SampledSpeed(Len(sweep.rows)), sweep.length_m), Flt(4, -1))

====
